---------------------------- MODULE Spec2Model ----------------------------
(***************************************************************************)
(* A model of the suggestion pipeline of psychopy_ai_coder_assistant:      *)
(* CodeAnalyzer (analyzer.py), LLMClient (llm_client.py), CodeSanitizer    *)
(* (security.py) and PsychoPyPatternDetector (patterns.py).                *)
(***************************************************************************)
EXTENDS Integers, Sequences, FiniteSets, TLC

(***************************************************************************)
(* Strings.  A Python str is a sequence of code points and str comparison  *)
(* is lexicographic on code points.  The model keeps string literals as    *)
(* atoms and gives the code points of every atom that is ever compared by  *)
(* order (categories and titles).  A title is the sequence of the pieces   *)
(* an f-string joins: <<"Builder: ", "TrialHandler">>.                     *)
(***************************************************************************)
CodePoints(s) ==
  CASE s = "best_practices" -> <<98, 101, 115, 116, 95, 112, 114, 97, 99, 116, 105, 99, 101, 115>>
    [] s = "builder_mapping" -> <<98, 117, 105, 108, 100, 101, 114, 95, 109, 97, 112, 112, 105, 110, 103>>
    [] s = "general" -> <<103, 101, 110, 101, 114, 97, 108>>
    [] s = "performance" -> <<112, 101, 114, 102, 111, 114, 109, 97, 110, 99, 101>>
    [] s = "timing" -> <<116, 105, 109, 105, 110, 103>>
    [] s = "Low" -> <<76, 111, 119>>
    [] s = "High" -> <<72, 105, 103, 104>>
    [] s = "Mid" -> <<77, 105, 100>>
    [] s = "Stimulus creation in loop (" -> <<83, 116, 105, 109, 117, 108, 117, 115, 32, 99, 114, 101, 97, 116, 105, 111, 110, 32, 105, 110, 32, 108, 111, 111, 112, 32, 40>>
    [] s = "TextStim" -> <<84, 101, 120, 116, 83, 116, 105, 109>>
    [] s = "ImageStim" -> <<73, 109, 97, 103, 101, 83, 116, 105, 109>>
    [] s = ")" -> <<41>>
    [] s = "Trial loop detected" -> <<84, 114, 105, 97, 108, 32, 108, 111, 111, 112, 32, 100, 101, 116, 101, 99, 116, 101, 100>>
    [] s = "Magic key string" -> <<77, 97, 103, 105, 99, 32, 107, 101, 121, 32, 115, 116, 114, 105, 110, 103>>
    [] s = "Inefficient timing with time.sleep()" -> <<73, 110, 101, 102, 102, 105, 99, 105, 101, 110, 116, 32, 116, 105, 109, 105, 110, 103, 32, 119, 105, 116, 104, 32, 116, 105, 109, 101, 46, 115, 108, 101, 101, 112, 40, 41>>
    [] s = "Missing window cleanup" -> <<77, 105, 115, 115, 105, 110, 103, 32, 119, 105, 110, 100, 111, 119, 32, 99, 108, 101, 97, 110, 117, 112>>
    [] s = "Missing core.quit()" -> <<77, 105, 115, 115, 105, 110, 103, 32, 99, 111, 114, 101, 46, 113, 117, 105, 116, 40, 41>>
    [] s = "Sound loading in loop" -> <<83, 111, 117, 110, 100, 32, 108, 111, 97, 100, 105, 110, 103, 32, 105, 110, 32, 108, 111, 111, 112>>
    [] s = "Pattern detected" -> <<80, 97, 116, 116, 101, 114, 110, 32, 100, 101, 116, 101, 99, 116, 101, 100>>
    [] s = "Builder: " -> <<66, 117, 105, 108, 100, 101, 114, 58, 32>>
    [] s = "Performance: " -> <<80, 101, 114, 102, 111, 114, 109, 97, 110, 99, 101, 58, 32>>
    [] s = "Best Practice: " -> <<66, 101, 115, 116, 32, 80, 114, 97, 99, 116, 105, 99, 101, 58, 32>>
    [] s = "Component mapping" -> <<67, 111, 109, 112, 111, 110, 101, 110, 116, 32, 109, 97, 112, 112, 105, 110, 103>>
    [] s = "Optimization" -> <<79, 112, 116, 105, 109, 105, 122, 97, 116, 105, 111, 110>>
    [] s = "Improvement" -> <<73, 109, 112, 114, 111, 118, 101, 109, 101, 110, 116>>
    [] s = "TrialHandler" -> <<84, 114, 105, 97, 108, 72, 97, 110, 100, 108, 101, 114>>
    [] s = "Stimulus recreated" -> <<83, 116, 105, 109, 117, 108, 117, 115, 32, 114, 101, 99, 114, 101, 97, 116, 101, 100>>
    [] s = "Close window" -> <<67, 108, 111, 115, 101, 32, 119, 105, 110, 100, 111, 119>>
    [] s = "" -> <<>>

RECURSIVE JoinPoints(_)
\* The code points of a title: the concatenation of its pieces.
JoinPoints(pieces) ==
  IF pieces = <<>> THEN <<>>
  ELSE CodePoints(Head(pieces)) \o JoinPoints(Tail(pieces))

RECURSIVE SeqLess(_, _)
\* Python's < on two sequences of code points: the first difference decides,
\* and a proper prefix is smaller.
SeqLess(a, b) ==
  IF b = <<>> THEN FALSE
  ELSE IF a = <<>> THEN TRUE
  ELSE IF Head(a) # Head(b) THEN Head(a) < Head(b)
  ELSE SeqLess(Tail(a), Tail(b))

StrLess(s, t) == SeqLess(CodePoints(s), CodePoints(t))
TitleLess(s, t) == SeqLess(JoinPoints(s), JoinPoints(t))
TitleEq(s, t) == JoinPoints(s) = JoinPoints(t)

(***************************************************************************)
(* CodeSuggestion and the aggregator's second half, _filter_and_prioritize.*)
(***************************************************************************)
CodeSuggestion(category, title, description, original_code, improved_code, line_numbers, priority) ==
  [category |-> category, title |-> title, description |-> description,
   original_code |-> original_code, improved_code |-> improved_code,
   line_numbers |-> line_numbers, priority |-> priority]

\* key = (s.category, s.original_code)
DedupKey(s) == <<s.category, s.original_code>>

\* The slice bound of filtered[:10].
MaxSuggestions == 10

\* The position of `key` in the insertion-ordered dict, 0 when absent.
KeyIndex(best, key) ==
  IF \E i \in 1..Len(best) : DedupKey(best[i]) = key
  THEN CHOOSE i \in 1..Len(best) : DedupKey(best[i]) = key
  ELSE 0

\* Mutant: the earlier implementation, which kept the first occurrence.
BestMapStepKeepFirst(best, s) ==
  IF KeyIndex(best, DedupKey(s)) = 0 THEN Append(best, s) ELSE best

\* Mutant: a record of equal priority replacing the one kept so far.
BestMapStepKeepLast(best, s) ==
  LET i == KeyIndex(best, DedupKey(s)) IN
    IF i = 0 THEN Append(best, s)
    ELSE IF s.priority >= best[i].priority THEN [best EXCEPT ![i] = s]
    ELSE best

\* One iteration of the loop over suggestions: best_map[key] = s when the key
\* is new or s.priority > current.priority.  A dict keeps the position of a
\* key's first insertion when its value is replaced.
BestMapStep(best, s) ==
  LET i == KeyIndex(best, DedupKey(s)) IN
    IF i = 0 THEN Append(best, s)
    ELSE IF s.priority > best[i].priority THEN [best EXCEPT ![i] = s]
    ELSE best

RECURSIVE BestMapFrom(_, _)
BestMapFrom(best, suggs) ==
  IF suggs = <<>> THEN best
  ELSE BestMapFrom(BestMapStep(best, Head(suggs)), Tail(suggs))

\* list(best_map.values()) after the loop.
BestMap(suggs) == BestMapFrom(<<>>, suggs)

\* Mutant: the sort key without the title, (-x.priority, x.category).
SortKeyLessNoTitle(a, b) ==
  \/ -a.priority < -b.priority
  \/ /\ a.priority = b.priority
     /\ StrLess(a.category, b.category)

\* key(a) < key(b) for key = (-x.priority, x.category, x.title), compared as
\* Python compares tuples.
SortKeyLess(a, b) ==
  \/ -a.priority < -b.priority
  \/ /\ a.priority = b.priority
     /\ StrLess(a.category, b.category)
  \/ /\ a.priority = b.priority
     /\ a.category = b.category
     /\ TitleLess(a.title, b.title)

\* x placed after every element that does not come after it: a stable insert.
RECURSIVE StableInsert(_, _)
StableInsert(sorted, x) ==
  IF sorted = <<>> THEN <<x>>
  ELSE IF SortKeyLess(x, Head(sorted)) THEN <<x>> \o sorted
  ELSE <<Head(sorted)>> \o StableInsert(Tail(sorted), x)

RECURSIVE SortFrom(_, _)
SortFrom(sorted, rest) ==
  IF rest = <<>> THEN sorted
  ELSE SortFrom(StableInsert(sorted, Head(rest)), Tail(rest))

\* filtered.sort(key=...): list.sort is stable.
StableSort(list) == SortFrom(<<>>, list)

\* Mutant: the slice forgotten.
TruncateNone(list) == list

\* filtered[:10]
Truncate(list) ==
  IF Len(list) <= MaxSuggestions THEN list ELSE SubSeq(list, 1, MaxSuggestions)

FilterAndPrioritize(suggs) == Truncate(StableSort(BestMap(suggs)))


(***************************************************************************)
(* Source programs.  A program is named by an atom; Program gives its      *)
(* lines, the outcome of ast.parse and, when it parses, the statements of  *)
(* its module body.  Of the syntax tree only what the detector passes look *)
(* at is kept: Call nodes (their func and nested call arguments), For      *)
(* nodes (target, iter, body) and While nodes (body).                      *)
(***************************************************************************)
NoId == "<no id>"

\* Call whose func is an Attribute, value.attr(...): value_id is value.id when
\* value is a Name and NoId otherwise; src is ast.unparse of the call.
AttrCall(value_id, attr, src, lineno) ==
  [type |-> "Call", func |-> [type |-> "Attribute", value_id |-> value_id, attr |-> attr],
   args |-> <<>>, src |-> src, lineno |-> lineno]

\* Call whose func is a Name, id(args...); arg_src is ast.unparse of args[0].
NameCall(id, arg_src, lineno) ==
  [type |-> "Call", func |-> [type |-> "Name", id |-> id],
   args |-> <<>>, arg_src |-> arg_src, lineno |-> lineno]

\* target_id is target.id when the target is a Name and NoId otherwise.
ForNode(target_id, iter, body, lineno) ==
  [type |-> "For", target_id |-> target_id, iter |-> iter, body |-> body, lineno |-> lineno]

\* while True: body
WhileNode(body, lineno) == [type |-> "While", body |-> body, lineno |-> lineno]

\* The program of test_pattern_detection_only.
LoopProgram ==
  [parse |-> "ok",
   lines |-> <<"", "import psychopy.visual as visual", "import time",
               "win = visual.Window()", "for i in range(10):",
               "    text = visual.TextStim(win, text=\"Hello\")",
               "    text.draw()", "    win.flip()", "    time.sleep(1.0)", "">>,
   body |-> << AttrCall("visual", "Window", "visual.Window()", 4),
               ForNode("i", NameCall("range", "10", 5),
                       << AttrCall("visual", "TextStim", "visual.TextStim(win, text='Hello')", 6),
                          AttrCall("text", "draw", "text.draw()", 7),
                          AttrCall("win", "flip", "win.flip()", 8),
                          AttrCall("time", "sleep", "time.sleep(1.0)", 9) >>,
                       5) >>]

\* A program that keeps a credential in an assignment and checks a key.
SecretProgram ==
  [parse |-> "ok",
   lines |-> <<"api_key = \"sk-1234567890abcdefghij\"",
               "keys = event.getKeys(['space'])",
               "time.sleep(0.5)">>,
   body |-> << AttrCall("event", "getKeys", "event.getKeys(['space'])", 2),
               AttrCall("time", "sleep", "time.sleep(0.5)", 3) >>]

\* The program of test_async_analysis.
HelloProgram ==
  [parse |-> "ok",
   lines |-> <<"print('hello')">>,
   body |-> << NameCall("print", "'hello'", 1) >>]

\* The program of test_analyze_invalid_syntax: ast.parse raises SyntaxError.
BrokenProgram ==
  [parse |-> "SyntaxError",
   lines |-> <<"", "import psychopy.visual as visual", "for i in range(10",
               "    print(i)  # Missing closing parenthesis", "">>,
   body |-> <<>>]

Program(code) ==
  CASE code = "loop" -> LoopProgram
    [] code = "secret" -> SecretProgram
    [] code = "hello" -> HelloProgram
    [] code = "broken" -> BrokenProgram

Codes == {"loop", "secret", "hello", "broken"}

\* Programs put together from blocks of lines, one block after the other.
BlockNames ==
  {"window", "close", "quit", "stim", "sleep", "for_stim", "while_stim", "nested",
   "attr_for", "comment", "deep", "broken"}

\* The lines of a block.  "deep" is an assignment whose right side adds 5001
\* terms, on which ast.parse raises RecursionError; "broken" does not parse.
BlockLines(b) ==
  CASE b = "window" -> <<"win = visual.Window()">>
    [] b = "close" -> <<"win.close()">>
    [] b = "quit" -> <<"core.quit()">>
    [] b = "stim" -> <<"text = visual.TextStim(win, text=\"Hello\")">>
    [] b = "sleep" -> <<"time.sleep(1.0)">>
    [] b = "for_stim" -> <<"for i in range(10):",
                           "    text = visual.TextStim(win, text=\"Hello\")",
                           "    win.flip()">>
    [] b = "while_stim" -> <<"while True:",
                             "    text = visual.TextStim(win, text=\"Hello\")">>
    [] b = "nested" -> <<"for i in range(10):", "    for j in range(10):",
                         "        text = visual.TextStim(win, text=\"Hello\")",
                         "        snd = sound.Sound(\"beep.wav\")",
                         "        time.sleep(1.0)">>
    [] b = "attr_for" -> <<"for self.trial in range(10):", "    win.flip()">>
    [] b = "comment" -> <<"# Missing win.close() and core.quit()">>
    [] b = "deep" -> <<"x = 1+1+ ... +1">>
    [] b = "broken" -> <<"for i in range(10">>

\* The statements of a block that follows `at` lines.
BlockBody(b, at) ==
  LET Stim(n) == AttrCall("visual", "TextStim", "visual.TextStim(win, text='Hello')", at + n)
  IN
  CASE b = "window" -> <<AttrCall("visual", "Window", "visual.Window()", at + 1)>>
    [] b = "close" -> <<AttrCall("win", "close", "win.close()", at + 1)>>
    [] b = "quit" -> <<AttrCall("core", "quit", "core.quit()", at + 1)>>
    [] b = "stim" -> <<Stim(1)>>
    [] b = "sleep" -> <<AttrCall("time", "sleep", "time.sleep(1.0)", at + 1)>>
    [] b = "for_stim" ->
         <<ForNode("i", NameCall("range", "10", at + 1),
                   <<Stim(2), AttrCall("win", "flip", "win.flip()", at + 3)>>, at + 1)>>
    [] b = "while_stim" -> <<WhileNode(<<Stim(2)>>, at + 1)>>
    [] b = "nested" ->
         <<ForNode("i", NameCall("range", "10", at + 1),
                   <<ForNode("j", NameCall("range", "10", at + 2),
                             <<Stim(3),
                               AttrCall("sound", "Sound", "sound.Sound('beep.wav')", at + 4),
                               AttrCall("time", "sleep", "time.sleep(1.0)", at + 5)>>,
                             at + 2)>>,
                   at + 1)>>
    [] b = "attr_for" ->
         <<ForNode(NoId, NameCall("range", "10", at + 1),
                   <<AttrCall("win", "flip", "win.flip()", at + 2)>>, at + 1)>>
    [] OTHER -> <<>>

RECURSIVE SourceLines(_)
SourceLines(blocks) ==
  IF blocks = <<>> THEN <<>> ELSE BlockLines(Head(blocks)) \o SourceLines(Tail(blocks))

RECURSIVE SourceBody(_, _)
SourceBody(blocks, at) ==
  IF blocks = <<>> THEN <<>>
  ELSE BlockBody(Head(blocks), at)
         \o SourceBody(Tail(blocks), at + Len(BlockLines(Head(blocks))))

\* How ast.parse ends on the program: the parser reports a syntax error
\* before the tree is built, and building the tree of the deep expression
\* exceeds the recursion limit.
SourceParse(blocks) ==
  IF \E i \in 1..Len(blocks) : blocks[i] = "broken" THEN "SyntaxError"
  ELSE IF \E i \in 1..Len(blocks) : blocks[i] = "deep" THEN "RecursionError"
  ELSE "ok"

SourceProgram(blocks) ==
  [parse |-> SourceParse(blocks), lines |-> SourceLines(blocks),
   body |-> IF SourceParse(blocks) = "ok" THEN SourceBody(blocks, 0) ELSE <<>>]

(***************************************************************************)
(* PsychoPyPatternDetector.                                                *)
(***************************************************************************)
\* ast.iter_child_nodes, restricted to the nodes kept.
ChildNodes(node) ==
  CASE node.type = "For" -> <<node.iter>> \o node.body
    [] node.type = "While" -> node.body
    [] OTHER -> node.args

RECURSIVE WalkQueue(_)
\* ast.walk: breadth first, from a queue of nodes.
WalkQueue(todo) ==
  IF todo = <<>> THEN <<>>
  ELSE <<Head(todo)>> \o WalkQueue(Tail(todo) \o ChildNodes(Head(todo)))

Walk(node) == WalkQueue(<<node>>)

RECURSIVE VisitNodes(_)
\* The nodes in the order NodeVisitor.visit reaches them when every visit_X
\* ends with generic_visit: depth first, parents before children.
VisitNodes(nodes) ==
  IF nodes = <<>> THEN <<>>
  ELSE <<Head(nodes)>> \o VisitNodes(ChildNodes(Head(nodes))) \o VisitNodes(Tail(nodes))

RECURSIVE Flatten(_)
\* The concatenation of a sequence of sequences.
Flatten(seqs) ==
  IF seqs = <<>> THEN <<>> ELSE Head(seqs) \o Flatten(Tail(seqs))

\* The concatenation of F(x) for x along seq: results.append in a loop.
FlatMap(seq, F(_)) == Flatten([i \in 1..Len(seq) |-> F(seq[i])])

IsFor(node) == node.type = "For"
IsAttrCall(node) == node.type = "Call" /\ node.func.type = "Attribute"

\* Mutant: visit_For reaching the loops of the module body only.
ForNodesOfModule(body) == SelectSeq(body, IsFor)

\* The For nodes visit_For is called on.
ForNodes(body) == SelectSeq(VisitNodes(body), IsFor)

PatternRecord(category, title, description, code, suggestion, line_numbers, priority) ==
  [category |-> category, title |-> title, description |-> description,
   code |-> code, suggestion |-> suggestion, line_numbers |-> line_numbers,
   priority |-> priority]

StimulusClasses == {"TextStim", "ImageStim", "CircleStim", "RectStim"}

\* _detect_stimulus_in_loop: for every For node, every call visual.<Stim>(...)
\* among ast.walk(node).
DetectStimulusInLoop(body) ==
  LET IsStim(child) == /\ IsAttrCall(child)
                       /\ child.func.value_id = "visual"
                       /\ child.func.attr \in StimulusClasses
      Rec(child) ==
        << PatternRecord("performance",
             <<"Stimulus creation in loop (", child.func.attr, ")">>,
             <<"Creating ", child.func.attr,
               " inside loop is inefficient. Create outside loop and update properties inside.">>,
             child.src,
             <<"# Create outside loop\nstim = visual.", child.func.attr,
               "(...)\n# Update inside loop\nstim.setText(...) or stim.setPos(...)">>,
             <<child.lineno>>, 4) >>
      PerFor(node) == FlatMap(SelectSeq(Walk(node), IsStim), Rec)
  IN FlatMap(ForNodes(body), PerFor)

\* 'key' in child.func.attr.lower()
AttrMentionsKey(attr) == attr \in {"getKeys", "waitKeys", "clearKeys"}

\* f'for {target} in range({arg}):'
ForRangeHeader(target_id, arg_src) ==
  CASE target_id = "i" /\ arg_src = "10" -> "for i in range(10):"
    [] OTHER -> "for ... in range(...):"

\* The test of _detect_trial_loops on a For node: a loop over range(...)
\* that holds a draw, present or flip call or a call whose attribute
\* mentions key.
IsTrialLoop(node) ==
  /\ node.iter.type = "Call"
  /\ node.iter.func.type = "Name"
  /\ node.iter.func.id = "range"
  /\ \E i \in 1..Len(Walk(node)) :
       /\ IsAttrCall(Walk(node)[i])
       /\ \/ Walk(node)[i].func.attr \in {"draw", "present", "flip"}
          \/ AttrMentionsKey(Walk(node)[i].func.attr)

\* _detect_trial_loops raises AttributeError at node.target.id when the
\* target of a trial loop is not a Name.
TrialLoopsRaises(body) ==
  \E i \in 1..Len(ForNodes(body)) :
    IsTrialLoop(ForNodes(body)[i]) /\ ForNodes(body)[i].target_id = NoId

\* _detect_trial_loops, when it returns.
DetectTrialLoops(body) ==
  LET PerFor(node) ==
        IF IsTrialLoop(node)
        THEN << PatternRecord("builder_mapping", <<"Trial loop detected">>,
                  <<"This loop pattern could be implemented using a TrialHandler component in Builder.">>,
                  ForRangeHeader(node.target_id, node.iter.arg_src),
                  <<"TrialHandler component with nReps parameter">>,
                  <<node.lineno>>, 3) >>
        ELSE <<>>
  IN FlatMap(ForNodes(body), PerFor)

\* re.finditer of the key pattern '"space"|"return"|"escape"' (either quote)
\* on a line: the matched texts, left to right.
KeyMatches(line) ==
  CASE line = "keys = event.getKeys(['space'])" -> <<"'space'">>
    [] OTHER -> <<>>

\* 'key' in line.lower() or 'response' in line.lower()
LineMentionsKey(line) ==
  line \in {"keys = event.getKeys(['space'])", "api_key = \"sk-1234567890abcdefghij\""}

\* _detect_magic_numbers: only the key context appends records.
DetectMagicNumbers(lines) ==
  LET PerLine(i) ==
        LET Rec(m) ==
              << PatternRecord("best_practices", <<"Magic key string">>,
                   <<"Define key constants for better maintainability.">>,
                   m, <<"KEY_RESPONSE = ", m, "\n# Then use: KEY_RESPONSE">>,
                   <<i>>, 2) >>
        IN IF LineMentionsKey(lines[i]) THEN FlatMap(KeyMatches(lines[i]), Rec) ELSE <<>>
  IN FlatMap([i \in 1..Len(lines) |-> i], PerLine)

\* Mutant: calls of time.sleep not reported.
DetectInefficientTimingNone(body) == <<>>

\* _detect_inefficient_timing: visit_Call on every Call node.
DetectInefficientTiming(body) ==
  LET IsSleep(node) == /\ IsAttrCall(node)
                       /\ node.func.value_id = "time"
                       /\ node.func.attr = "sleep"
      Rec(node) ==
        << PatternRecord("performance", <<"Inefficient timing with time.sleep()">>,
             <<"time.sleep() is not precise for stimulus presentation. Use frame-based timing or core.wait().">>,
             "time.sleep(...)",
             <<"core.wait(...) or frame-based timing with win.flip()">>,
             <<node.lineno>>, 3) >>
  IN FlatMap(SelectSeq(VisitNodes(body), IsSleep), Rec)

\* 'Window(' in line, '.close()' in line, 'core.quit()' in line
LineHasWindow(line) == line \in {"win = visual.Window()"}
LineHasClose(line) == line \in {"win.close()", "# Missing win.close() and core.quit()"}
LineHasQuit(line) == line \in {"core.quit()", "# Missing win.close() and core.quit()"}

\* _detect_missing_cleanup
DetectMissingCleanup(lines) ==
  LET has_window == \E i \in 1..Len(lines) : LineHasWindow(lines[i])
      has_close == \E i \in 1..Len(lines) : LineHasClose(lines[i])
      has_quit == \E i \in 1..Len(lines) : LineHasQuit(lines[i])
  IN (IF has_window /\ ~has_close
      THEN << PatternRecord("best_practices", <<"Missing window cleanup">>,
                <<"Always close the window with win.close() when done.">>,
                "win = visual.Window(...)",
                <<"win.close()  # Add at end of experiment">>, <<>>, 2) >>
      ELSE <<>>)
     \o
     (IF has_window /\ ~has_quit
      THEN << PatternRecord("best_practices", <<"Missing core.quit()">>,
                <<"Call core.quit() to ensure proper cleanup.">>,
                "End of experiment",
                <<"core.quit()  # Add at end of experiment">>, <<>>, 1) >>
      ELSE <<>>)

\* _detect_resource_loading_in_loop
DetectResourceLoadingInLoop(body) ==
  LET IsSound(child) == /\ IsAttrCall(child)
                        /\ child.func.value_id = "sound"
                        /\ child.func.attr = "Sound"
      Rec(child) ==
        << PatternRecord("performance", <<"Sound loading in loop">>,
             <<"Loading sounds inside loops causes delays. Pre-load before trials.">>,
             "sound.Sound(...) in loop",
             <<"# Pre-load sounds\nsounds = [sound.Sound(file) for file in sound_files]\n# Use in loop: sounds[index].play()">>,
             <<child.lineno>>, 4) >>
      PerFor(node) == FlatMap(SelectSeq(Walk(node), IsSound), Rec)
  IN FlatMap(ForNodes(body), PerFor)

\* detect_patterns on a program ast.parse returns a tree for or raises
\* SyntaxError on: [] when the code does not parse, else the records of the
\* passes in the order of self.patterns, a pass that raises adding nothing.
DetectPatternsOf(prog) ==
  IF prog.parse # "ok" THEN <<>>
  ELSE DetectStimulusInLoop(prog.body)
       \o (IF TrialLoopsRaises(prog.body) THEN <<>> ELSE DetectTrialLoops(prog.body))
       \o DetectMagicNumbers(prog.lines)
       \o DetectInefficientTiming(prog.body)
       \o DetectMissingCleanup(prog.lines)
       \o DetectResourceLoadingInLoop(prog.body)

\* What escapes detect_patterns: only SyntaxError is caught around
\* ast.parse, so any other exception of ast.parse leaves the method.
DetectPatternsRaises(prog) == prog.parse \notin {"ok", "SyntaxError"}

DetectPatterns(code) == DetectPatternsOf(Program(code))

(***************************************************************************)
(* CodeSanitizer and PrivacyManager.  A match of a sensitive pattern is    *)
(* taken to be a whole line, so the text is handled as its sequence of     *)
(* lines.                                                                  *)
(***************************************************************************)
\* self.sensitive_patterns, in order: <<pattern, replacement_type>>.
SensitivePatterns ==
  << <<"api[_-]?key=", "API_KEY">>, <<"token=", "TOKEN">>, <<"secret=", "SECRET">>,
     <<"mysql://", "DATABASE_URL">>, <<"postgresql://", "DATABASE_URL">>,
     <<"mongodb://", "DATABASE_URL">>,
     <<"/home/", "USER_PATH">>, <<"C:\\Users\\", "USER_PATH">>,
     <<"email", "EMAIL">>, <<"ipv4", "IP_ADDRESS">>,
     <<"https?://user:pass@", "AUTHENTICATED_URL">> >>

\* re.finditer(pattern, text, re.IGNORECASE) finds a match that is `line`.
PatternMatches(pattern, line) ==
  \/ pattern = "api[_-]?key=" /\ line = "api_key = \"sk-1234567890abcdefghij\""
  \/ pattern = "token=" /\ line = "token = \"ghp_abcdefghijklmnopqrstuvwx\""
  \/ pattern = "secret=" /\ line = "secret = \"correct-horse-battery\""
  \/ pattern = "mysql://" /\ line = "mysql://db.example.org/exp"
  \/ pattern = "/home/" /\ line = "/home/alice/data.csv"
  \/ pattern = "email" /\ line = "researcher@university.edu"
  \/ pattern = "ipv4" /\ line = "192.168.1.100"
  \/ pattern = "https?://user:pass@" /\ line = "http://bob:pw@localhost/x"

\* f'<{replacement_type}_{hashlib.md5(original.encode()).hexdigest()[:8]}>'
Replacement(replacement_type, original) ==
  CASE replacement_type = "API_KEY" /\ original = "api_key = \"sk-1234567890abcdefghij\""
         -> "<API_KEY_dafa1b26>"
    [] replacement_type = "TOKEN" /\ original = "token = \"ghp_abcdefghijklmnopqrstuvwx\""
         -> "<TOKEN_30168db8>"
    [] replacement_type = "SECRET" /\ original = "secret = \"correct-horse-battery\""
         -> "<SECRET_b9beca87>"
    [] replacement_type = "DATABASE_URL" /\ original = "mysql://db.example.org/exp"
         -> "<DATABASE_URL_17956964>"
    [] replacement_type = "USER_PATH" /\ original = "/home/alice/data.csv"
         -> "<USER_PATH_433c3e58>"
    [] replacement_type = "EMAIL" /\ original = "researcher@university.edu"
         -> "<EMAIL_fa9817b1>"
    [] replacement_type = "IP_ADDRESS" /\ original = "192.168.1.100"
         -> "<IP_ADDRESS_d984a05f>"
    [] replacement_type = "AUTHENTICATED_URL" /\ original = "http://bob:pw@localhost/x"
         -> "<AUTHENTICATED_URL_2f0b3b20>"
    [] OTHER -> "<REDACTED>"

\* Mutant: the replacement not carried out.
ReplaceNone(text, original, replacement) == text

\* sanitized.replace(original, replacement)
ReplaceAll(text, original, replacement) ==
  [i \in 1..Len(text) |-> IF text[i] = original THEN replacement ELSE text[i]]

RECURSIVE SanitizeMatches(_, _, _)
\* The loop over one pattern's matches: acc is <<sanitized, replacements>>.
SanitizeMatches(acc, replacement_type, matches) ==
  IF matches = <<>> THEN acc
  ELSE LET original == Head(matches)
           replacement == Replacement(replacement_type, original)
       IN SanitizeMatches(
            << ReplaceAll(acc[1], original, replacement),
               Append(acc[2], [original |-> original, replacement |-> replacement,
                               type |-> replacement_type]) >>,
            replacement_type, Tail(matches))

RECURSIVE SanitizePatterns(_, _)
\* The loop over self.sensitive_patterns; the matches of a pattern are found
\* in the text as sanitized so far.
SanitizePatterns(acc, patterns) ==
  IF patterns = <<>> THEN acc
  ELSE LET pattern == Head(patterns)[1]
           Hit(line) == PatternMatches(pattern, line)
       IN SanitizePatterns(
            SanitizeMatches(acc, Head(patterns)[2], SelectSeq(acc[1], Hit)),
            Tail(patterns))

\* sanitize_code: <<sanitized, replacements>>.
SanitizeCode(text) == SanitizePatterns(<<text, <<>>>>, SensitivePatterns)

\* check_for_sensitive_content: per pattern, in the order of
\* self.sensitive_patterns, its matches from the top of the text down.
CheckForSensitiveContent(text) ==
  LET PerPattern(p) ==
        LET Hit(i) == IF PatternMatches(p[1], text[i])
                      THEN <<[type |-> p[2], content |-> text[i], line |-> i]>> ELSE <<>>
        IN Flatten([i \in 1..Len(text) |-> Hit(i)])
  IN Flatten([j \in 1..Len(SensitivePatterns) |-> PerPattern(SensitivePatterns[j])])

\* risk_weights of _calculate_privacy_risk
RiskWeights ==
  [API_KEY |-> 5, TOKEN |-> 5, SECRET |-> 5, DATABASE_URL |-> 4, AUTHENTICATED_URL |-> 4,
   EMAIL |-> 2, IP_ADDRESS |-> 2, USER_PATH |-> 1]

RECURSIVE MaxRiskFrom(_, _)
\* The loop of _calculate_privacy_risk: max_risk = max(max_risk, risk).
MaxRiskFrom(max_risk, items) ==
  IF items = <<>> THEN max_risk
  ELSE LET risk == IF Head(items).type \in DOMAIN RiskWeights
                   THEN RiskWeights[Head(items).type] ELSE 1
       IN MaxRiskFrom(IF risk > max_risk THEN risk ELSE max_risk, Tail(items))

\* Mutant: the weight of the last item in place of the greatest.
CalculatePrivacyRiskOfLast(sensitive_content) ==
  IF sensitive_content = <<>> THEN 1
  ELSE MaxRiskFrom(1, <<sensitive_content[Len(sensitive_content)]>>)

\* PrivacyManager._calculate_privacy_risk
CalculatePrivacyRisk(sensitive_content) ==
  IF sensitive_content = <<>> THEN 1
  ELSE LET max_risk == MaxRiskFrom(1, sensitive_content) IN
         IF max_risk < 5 THEN max_risk ELSE 5

\* PrivacyManager.analyze_code_privacy
AnalyzeCodePrivacy(text) ==
  LET sensitive == CheckForSensitiveContent(text)
      clean == SanitizeCode(text)
      risk_score == CalculatePrivacyRisk(sensitive)
  IN [risk_score |-> risk_score, sensitive_content |-> sensitive,
      sanitized_code |-> clean[1], replacements |-> clean[2],
      safe_to_send |-> risk_score < 3]

(***************************************************************************)
(* _combine_suggestions.  An external item and a raw pattern record are    *)
(* maps that may lack keys; d.get(k, default) is Get.  title, description  *)
(* and improved_code are kept as the sequence of pieces that make the str. *)
(***************************************************************************)
Get(d, k, default) == IF k \in DOMAIN d THEN d[k] ELSE default

\* _find_line_numbers
FindLineNumbers(code_snippet) == <<>>


\* priority=pattern.get('priority', 1)
LocalPriority(pattern) == Get(pattern, "priority", 1)

CombineSuggestions(local_patterns, llm_result) ==
  LET Builder(item) ==
        << CodeSuggestion("builder_mapping",
             <<"Builder: ", Get(item, "builder_equivalent", "Component mapping")>>,
             <<Get(item, "explanation", "")>>,
             Get(item, "original_code", ""),
             <<Get(item, "builder_equivalent", "")>>,
             FindLineNumbers(Get(item, "original_code", "")), 3) >>
      Performance(item) ==
        << CodeSuggestion("performance",
             <<"Performance: ", Get(item, "issue", "Optimization")>>,
             <<Get(item, "explanation", "")>>,
             Get(item, "original_code", ""),
             <<Get(item, "improved_code", "")>>,
             FindLineNumbers(Get(item, "original_code", "")), 4) >>
      BestPractice(item) ==
        << CodeSuggestion("best_practices",
             <<"Best Practice: ", Get(item, "issue", "Improvement")>>,
             <<Get(item, "explanation", "")>>,
             Get(item, "original_code", ""),
             <<Get(item, "improved_code", "")>>,
             FindLineNumbers(Get(item, "original_code", "")), 2) >>
      Local(pattern) ==
        << CodeSuggestion(Get(pattern, "category", "general"),
             Get(pattern, "title", <<"Pattern detected">>),
             Get(pattern, "description", <<"">>),
             Get(pattern, "code", ""),
             Get(pattern, "suggestion", <<"">>),
             Get(pattern, "line_numbers", <<>>),
             LocalPriority(pattern)) >>
  IN (IF "builder_mapping" \in DOMAIN llm_result
      THEN FlatMap(llm_result.builder_mapping, Builder) ELSE <<>>)
     \o (IF "performance_optimizations" \in DOMAIN llm_result
         THEN FlatMap(llm_result.performance_optimizations, Performance) ELSE <<>>)
     \o (IF "best_practices" \in DOMAIN llm_result
         THEN FlatMap(llm_result.best_practices, BestPractice) ELSE <<>>)
     \o FlatMap(local_patterns, Local)


(***************************************************************************)
(* ConfigManager and LLMClient.                                            *)
(***************************************************************************)
ProviderNames == {"openai", "anthropic", "google"}

\* get_api_key returns None for a provider without a stored key.
NoKey == "<None>"

\* Stands for None where get_active_provider finds no provider for the name.
NoProvider == [name |-> "<None>", api_key |-> "<None>"]

\* The truth value Python gives an API key.
Truthy(key) == key # NoKey /\ key # ""

\* The configurations a ConfigManager can hold: the active provider's name
\* and, per provider, a key or none.
Configs ==
  [api_provider : ProviderNames, api_keys : [ProviderNames -> {NoKey, "sk-key"}]]

\* LLMClient._initialize_providers: a provider object is made, and stored
\* under its name, for every provider whose key is truthy.
InitializeProviders(cfg, old) ==
  [n \in DOMAIN old \cup { m \in ProviderNames : Truthy(cfg.api_keys[m]) } |->
     IF Truthy(cfg.api_keys[n]) THEN [name |-> n, api_key |-> cfg.api_keys[n]] ELSE old[n]]

\* An empty dict.
NoProviders == [n \in {} |-> n]

\* LLMClient.get_active_provider: self.providers.get(provider_name)
GetActiveProvider(cfg, provs) ==
  IF cfg.api_provider \in DOMAIN provs THEN provs[cfg.api_provider] ELSE NoProvider

\* <Provider>.is_available: lib is not None and self.api_key
IsAvailable(provider, libs) == provider.name \in libs /\ Truthy(provider.api_key)

\* LLMClient.is_configured
IsConfigured(cfg, provs, libs) ==
  LET provider == GetActiveProvider(cfg, provs) IN
    provider # NoProvider /\ IsAvailable(provider, libs)

\* What a provider answers: a parsed map with the recognized keys, or the
\* wrapping of a text that is not JSON.
FullResponse ==
  [summary |-> "Found 3 issues",
   builder_mapping |->
     << [original_code |-> "for i in range(10):", builder_equivalent |-> "TrialHandler",
         explanation |-> "Use a loop component"] >>,
   performance_optimizations |->
     << [original_code |-> "visual.TextStim(win, text='Hello')", issue |-> "Stimulus recreated",
         improved_code |-> "text.setText('Hello')", explanation |-> "Create the stimulus once"] >>,
   best_practices |-> << [issue |-> "Close window", improved_code |-> "win.close()"] >>]

WrappedResponse == [analysis |-> "I could not analyze this code.", suggestions |-> <<>>]

\* json.loads can return values that are not what _combine_suggestions
\* expects.  A value that is not a dict is written as the record NotMap(type),
\* type being the name of its Python type; a dict of the model never has the
\* key json.  The value of a key is written as the sequence of items a for
\* loop draws from it, and a value a for loop cannot iterate as
\* NotIterable(type).
NotMap(type) == [json |-> type]
NotIterable(type) == <<[json |-> type, iterable |-> FALSE]>>
IsMap(v) == "json" \notin DOMAIN v
IsIterable(value) == value = <<>> \/ "iterable" \notin DOMAIN value[1]

\* {"summary": ..., "builder_mapping": ["Use a TrialHandler"]}
ItemNotMapResponse == [summary |-> "Found 1 issue", builder_mapping |-> <<NotMap("str")>>]

\* {"summary": ..., "best_practices": null}
FieldNotListResponse == [summary |-> "No issues", best_practices |-> NotIterable("NoneType")]

\* Responses that parse as JSON but not to the map the prompt asks for: a
\* list item that is not a map, a key holding null, and the texts [] and 42.
MalformedResponses ==
  {ItemNotMapResponse, FieldNotListResponse, NotMap("list"), NotMap("int")}

ProviderResponses == {FullResponse, WrappedResponse} \cup MalformedResponses

\* The ways the remote call of <Provider>.analyze_code ends: it raises (any
\* exception of the API call becomes a RuntimeError) or it returns a response.
ProviderOutcomes ==
  {[raises |-> TRUE, error |-> "Connection timed out"]}
    \cup {[raises |-> FALSE, value |-> v] : v \in ProviderResponses}

\* f"OpenAI API error: {str(e)}" and its siblings.
ApiErrorPrefix(name) ==
  CASE name = "openai" -> "OpenAI API error: "
    [] name = "anthropic" -> "Anthropic API error: "
    [] name = "google" -> "Google API error: "

ProviderUnavailable(name) ==
  CASE name = "openai" -> "OpenAI provider not available"
    [] name = "anthropic" -> "Anthropic provider not available"
    [] name = "google" -> "Google provider not available"

\* <Provider>.analyze_code(code, prompt) with the remote call ending in
\* `outcome`: [raised, error] or [raised, value].
ProviderAnalyzeCode(provider, libs, outcome) ==
  IF ~IsAvailable(provider, libs)
  THEN [raised |-> TRUE, error |-> <<ProviderUnavailable(provider.name)>>]
  ELSE IF outcome.raises
  THEN [raised |-> TRUE, error |-> <<ApiErrorPrefix(provider.name), outcome.error>>]
  ELSE [raised |-> FALSE, value |-> outcome.value]

\* LLMClient.analyze_code(code, prompt): reached is whether the call got as
\* far as provider.analyze_code.
ClientAnalyzeCode(cfg, provs, libs, outcome) ==
  LET provider == GetActiveProvider(cfg, provs) IN
    IF provider = NoProvider
    THEN [raised |-> TRUE, error |-> <<"No LLM provider configured">>, reached |-> FALSE]
    ELSE IF ~IsAvailable(provider, libs)
    THEN [raised |-> TRUE, error |-> <<"Selected LLM provider is not available">>,
          reached |-> FALSE]
    ELSE [reached |-> TRUE] @@ ProviderAnalyzeCode(provider, libs, outcome)

(***************************************************************************)
(* CodeAnalyzer: AnalysisResult and the pieces of analyze_code.            *)
(***************************************************************************)
\* Optional[str]: None is <<>>, a str is the one-element sequence of it.
None == <<>>
Some(text) == <<text>>

AnalysisResult(summary, suggs, success, error_message, analysis_time) ==
  [summary |-> summary, suggestions |-> suggs, success |-> success,
   error_message |-> error_message, analysis_time |-> analysis_time]

\* The result returned when ast.parse raises SyntaxError; analysis_time is
\* left to the dataclass default.
SyntaxErrorResult(message) ==
  AnalysisResult(<<"Syntax error in code">>, <<>>, FALSE,
                 Some(<<"Syntax error: ", message>>), "0.0")

\* str(e) of the SyntaxError ast.parse raises on a program.
SyntaxErrorText(c) ==
  CASE c = "broken" -> "'(' was never closed (<unknown>, line 3)"
    [] OTHER -> "invalid syntax"

\* The placeholder of _get_llm_analysis when no provider is configured.
NotConfiguredResult ==
  [summary |-> <<"LLM not configured">>, builder_mapping |-> <<>>,
   performance_optimizations |-> <<>>, best_practices |-> <<>>,
   general_suggestions |-> <<>>]

\* The placeholder of _get_llm_analysis when llm_client.analyze_code raises.
LlmFailedResult(error) ==
  [summary |-> <<"LLM analysis failed: ">> \o error, builder_mapping |-> <<>>,
   performance_optimizations |-> <<>>, best_practices |-> <<>>,
   general_suggestions |-> <<>>]

\* A provider's map as _get_llm_analysis returns it; its summary, a str, is
\* kept as a one-piece text.
LlmReturned(value) ==
  IF "summary" \in DOMAIN value THEN [value EXCEPT !.summary = <<value.summary>>] ELSE value

\* x in llm_result, for a str x: None, or the text of the TypeError raised
\* when llm_result is a value that has no membership test.
ContainsFault(llm_result) ==
  IF IsMap(llm_result) \/ llm_result.json \in {"list", "str"} THEN None
  ELSE Some(<<"argument of type '", llm_result.json, "' is not iterable">>)

\* for item in value: ... item.get(...): None, or the text of the first
\* exception raised (TypeError for the loop, AttributeError for item.get).
ItemsFault(value) ==
  IF ~IsIterable(value)
  THEN Some(<<"'", value[1].json, "' object is not iterable">>)
  ELSE LET bad == { i \in 1..Len(value) : ~IsMap(value[i]) } IN
         IF bad = {} THEN None
         ELSE LET first == CHOOSE i \in bad : \A j \in bad : i <= j IN
                Some(<<"'", value[first].json, "' object has no attribute 'get'">>)

\* The exception _combine_suggestions raises on llm_result, if any: the
\* three keys are gone through in the order of the code.
CombineFault(llm_result) ==
  IF ~IsMap(llm_result) THEN ContainsFault(llm_result)
  ELSE LET Fault(k) == IF k \in DOMAIN llm_result THEN ItemsFault(llm_result[k]) ELSE None IN
         IF Fault("builder_mapping") # None THEN Fault("builder_mapping")
         ELSE IF Fault("performance_optimizations") # None
         THEN Fault("performance_optimizations")
         ELSE Fault("best_practices")

\* The exception of llm_result.get('summary', ...) at line 99, if any.
SummaryFault(llm_result) ==
  IF IsMap(llm_result) THEN None
  ELSE Some(<<"'", llm_result.json, "' object has no attribute 'get'">>)

\* The first exception lines 92-105 of analyze_code raise, if any.
AnalysisFault(llm_result) ==
  IF CombineFault(llm_result) # None THEN CombineFault(llm_result)
  ELSE SummaryFault(llm_result)

\* Mutant: a failed external call turned into a failed run.
SuccessResultOnlyWithExternal(local_patterns, llm_result) ==
  IF Get(llm_result, "summary", <<"">>)[1] = "LLM analysis failed: "
  THEN AnalysisResult(<<"Analysis failed">>, <<>>, FALSE, Some(llm_result.summary), "elapsed")
  ELSE AnalysisResult(Get(llm_result, "summary", <<"Code analysis completed">>),
                      FilterAndPrioritize(CombineSuggestions(local_patterns, llm_result)),
                      TRUE, None, "elapsed")

\* Lines 92-105 of analyze_code: combine, filter and prioritize, and build
\* the successful result.
SuccessResult(local_patterns, llm_result) ==
  AnalysisResult(Get(llm_result, "summary", <<"Code analysis completed">>),
                 FilterAndPrioritize(CombineSuggestions(local_patterns, llm_result)),
                 TRUE, None, "elapsed")

\* Mutant: the except clause leaving error_message out.
AnalysisFailedResultNoMessage(error) ==
  AnalysisResult(<<"Analysis failed">>, <<>>, FALSE, None, "elapsed")

\* The result of the outer except clause of analyze_code, lines 107-114.
AnalysisFailedResult(error) ==
  AnalysisResult(<<"Analysis failed">>, <<>>, FALSE, Some(error), "elapsed")

\* analyze_code from line 92 on: the successful result, or the result of the
\* except clause when combining or reading the summary raises.
CombineAndReturn(local_patterns, llm_result) ==
  IF AnalysisFault(llm_result) = None THEN SuccessResult(local_patterns, llm_result)
  ELSE AnalysisFailedResult(AnalysisFault(llm_result)[1])

\* The result _analyze_code_thread builds in its except clause from str(e).
ThreadFailureResult(error) ==
  AnalysisResult(<<"Analysis failed">>, <<>>, FALSE, Some(error), "0.0")

(***************************************************************************)
(* PromptTemplates and PromptBuilder (prompts.py).  A prompt is the        *)
(* sequence of the texts it is made of: the base context, the instruction  *)
(* part of a template, the headings build_analysis_prompt adds.            *)
(***************************************************************************)
RecognizedFeatures == {"builder_mapping", "performance_optimization", "best_practices"}

\* PromptTemplates.get_base_context()
BaseContext == "You are an expert in PsychoPy, ..."

\* PromptTemplates.get_analysis_prompt(): the base context, then the
\* instructions to answer with summary, builder_mapping,
\* performance_optimizations and best_practices.
AnalysisPrompt == <<BaseContext, "Analyze the provided PsychoPy code and provide suggestions ...">>

\* get_builder_mapping_prompt(), get_performance_prompt() and
\* get_best_practices_prompt(): the base context, then the instructions of
\* the one category.
FocusedPrompt(feature) ==
  CASE feature = "builder_mapping"
         -> <<BaseContext, "Focus specifically on identifying code patterns ... Builder components.">>
    [] feature = "performance_optimization"
         -> <<BaseContext, "Focus specifically on performance optimization ...">>
    [] feature = "best_practices"
         -> <<BaseContext, "Focus specifically on PsychoPy best practices ...">>

\* The heading build_analysis_prompt puts before a category's instructions.
FocusHeading(feature) ==
  CASE feature = "builder_mapping" -> "\nFocus on Builder component mapping:"
    [] feature = "performance_optimization" -> "\nFocus on performance optimization:"
    [] feature = "best_practices" -> "\nFocus on best practices:"

\* template.split(base_context)[1]: what follows the base context.
SplitAfterBase(template) == Tail(template)[1]

\* The maps get_enabled_features can return: any of the three recognized
\* keys and one other key, each absent, False or True.
FeatureKeys == RecognizedFeatures \cup {"experimental"}
FeatureMaps == UNION { [K -> BOOLEAN] : K \in SUBSET FeatureKeys }

\* The analysis_features of _get_default_config.
DefaultFeatures == [k \in RecognizedFeatures |-> TRUE]

\* if self.enabled_features.get(feature, False): the two sections appended.
FocusSection(enabled_features, feature) ==
  IF Get(enabled_features, feature, FALSE)
  THEN <<FocusHeading(feature), SplitAfterBase(FocusedPrompt(feature))>>
  ELSE <<>>

\* PromptBuilder.build_analysis_prompt
BuildAnalysisPrompt(enabled_features) ==
  IF \A k \in DOMAIN enabled_features : enabled_features[k]
  THEN AnalysisPrompt
  ELSE <<BaseContext>>
         \o FocusSection(enabled_features, "builder_mapping")
         \o FocusSection(enabled_features, "performance_optimization")
         \o FocusSection(enabled_features, "best_practices")

(***************************************************************************)
(* The aggregator called on its own, as the unit tests call it:            *)
(* analyzer._filter_and_prioritize(suggestions).                           *)
(***************************************************************************)
VARIABLES
  suggestions,    \* the list handed to _filter_and_prioritize
  filtered,       \* the list it returned
  phase,          \* "input" while the caller builds its arguments, then "done"
  budget,         \* how many more records the caller may append
  raw_patterns,   \* the local_patterns handed to _combine_suggestions
  external,       \* the llm_result handed to _combine_suggestions
  config,         \* ConfigManager._config: api_provider and api_keys
  providers,      \* LLMClient.providers: provider name -> provider object
  imported,       \* the provider libraries whose import succeeded
  service,        \* the ways a call of the remote API can end
  features,       \* PromptBuilder.enabled_features
  prompt,         \* what build_analysis_prompt returned (<<>> until it has)
  input_text,           \* the text handed to the sanitizer or the privacy manager
  sanitized,      \* what sanitize_code returned: <<sanitized, replacements>>
  sensitive_content, \* the list handed to _calculate_privacy_risk
  privacy,        \* what analyze_code_privacy returned; the score alone
                  \* after a call of _calculate_privacy_risk
  argv,           \* the parsed command line and environment of a CLI run
  config_file,    \* ~/.psychopy/ai_assistant/config.json
  cli_stage,      \* where main() of the CLI is ("off" when not run)
  exit_code,      \* what main() returned (<<>> until it has)
  source,         \* the program handed to detect_patterns, as its blocks
  detect_raised,  \* the exception that left detect_patterns (<<>> for none)
  stored_features, \* ConfigManager._config['analysis_features']
  shared,         \* whether PromptBuilder.enabled_features is the very dict that
                  \* the configuration holds under 'analysis_features'
  ui,             \* where the thread that writes the configuration stands
  changes,        \* how many operations that thread has begun
  built_from,     \* history: the api_keys _initialize_providers last read
  flags_at_refresh, \* history: the flags the configuration held when the
                  \* prompt builder was last made
  stale,          \* history: the providers whose object was made before the
                  \* latest refresh began
  pc,             \* per run: where its thread stands
  code,           \* per run: the code passed to analyze_code_async
  local,          \* per run: local_patterns
  llm,            \* per run: llm_result
  configured,     \* per run: what llm_client.is_configured() answered
  result,         \* per run: what analyze_code returned (<<>> until it has)
  delivered,      \* per run: the results the callback was invoked with
  sent,           \* per run: the code texts handed to provider.analyze_code
  clientCalls,    \* per run: calls of llm_client.analyze_code
  detectCalls,    \* per run: calls of pattern_detector.detect_patterns
  escaped         \* per run: an exception left _analyze_code_thread

aggVars == <<suggestions, filtered, phase, budget, raw_patterns, external>>
promptVars == <<features, prompt>>
privacyVars == <<input_text, sanitized, sensitive_content, privacy>>
cliVars == <<argv, config_file, cli_stage, exit_code>>
detectVars == <<source, detect_raised>>
refreshVars == <<stored_features, shared, ui, changes, built_from, flags_at_refresh, stale>>
clientVars ==
  <<config, providers, imported, service, promptVars, privacyVars, cliVars, detectVars,
    refreshVars>>
runVars == <<pc, code, local, llm, configured, result, delivered, sent, clientCalls, detectCalls, escaped>>
vars == <<aggVars, clientVars, runVars>>

\* How many records the caller appends to its list.
MaxAppend == 3

\* How many records of pairwise distinct keys the long list starts with.
SeedLen == 9

\* The records a caller appends: two categories, two snippets, and the
\* (title, priority) pairs of test_highest_priority_kept_for_duplicates plus
\* one pair that ties with High on priority.
InputTitles == {<<<<"Low">>, 1>>, <<<<"High">>, 5>>, <<<<"Mid">>, 3>>, <<<<"Low">>, 5>>}

InputSuggestions ==
  { CodeSuggestion(c, tp[1], "d", oc, "", <<>>, tp[2]) :
      c \in {"performance", "best_practices"},
      oc \in {"", "same-code"},
      tp \in InputTitles }

SeedSnippet(i) ==
  CASE i = 1 -> "s1" [] i = 2 -> "s2" [] i = 3 -> "s3" [] i = 4 -> "s4"
    [] i = 5 -> "s5" [] i = 6 -> "s6" [] i = 7 -> "s7" [] i = 8 -> "s8"
    [] i = 9 -> "s9" [] OTHER -> "s10"

\* A list of SeedLen records with pairwise distinct snippets, priorities
\* cycling through 1..5 and titles through High, Mid, Low.
SeedList ==
  [i \in 1..SeedLen |->
     CodeSuggestion("general",
                    CASE i % 3 = 0 -> <<"Low">> [] i % 3 = 1 -> <<"High">> [] OTHER -> <<"Mid">>,
                    "d", SeedSnippet(i), "", <<>>, (i % 5) + 1)]

\* How many analysis runs may be started.
MaxRuns == 1

\* How many runs a caller may have in flight at once on one analyzer.
MaxConcurrent == 2

\* The identities of the worker threads.
Runs == 1..(IF MaxConcurrent > MaxRuns THEN MaxConcurrent ELSE MaxRuns)

\* No run started yet.
RunsIdle ==
  /\ pc = [r \in Runs |-> "idle"]
  /\ code = [r \in Runs |-> "hello"]
  /\ local = [r \in Runs |-> <<>>]
  /\ llm = [r \in Runs |-> NotConfiguredResult]
  /\ configured = [r \in Runs |-> "unasked"]
  /\ result = [r \in Runs |-> <<>>]
  /\ delivered = [r \in Runs |-> <<>>]
  /\ sent = [r \in Runs |-> <<>>]
  /\ clientCalls = [r \in Runs |-> 0]
  /\ detectCalls = [r \in Runs |-> 0]
  /\ escaped = [r \in Runs |-> FALSE]

\* ConfigManager._get_default_config
DefaultConfig == [api_provider |-> "openai", api_keys |-> [n \in ProviderNames |-> NoKey]]

\* parse_args on a bare path, with no environment variable set.
NoArgs == [path |-> "hello", provider |-> "<None>", api_key |-> NoKey, env_key |-> NoKey,
           no_llm |-> FALSE]

\* No configuration file stored yet.
NoConfigFile == [exists |-> FALSE, valid |-> FALSE, content |-> DefaultConfig]

\* detect_patterns not called on a program of its own.
DetectIdle ==
  /\ source = <<>>
  /\ detect_raised = <<>>

\* The configuration left as the analyzer's constructor read it.
RefreshIdle ==
  /\ stored_features = DefaultFeatures
  /\ shared = TRUE
  /\ ui = "idle"
  /\ changes = 0
  /\ built_from = config.api_keys
  /\ flags_at_refresh = DefaultFeatures
  /\ stale = {}

\* The CLI not in use.
CliIdle ==
  /\ argv = NoArgs
  /\ config_file = NoConfigFile
  /\ cli_stage = "off"
  /\ exit_code = <<>>

\* The collaborators of the analyzer that a run does not use, as
\* CodeAnalyzer(config_manager) leaves them on the default configuration.
ToolsIdle ==
  /\ features = DefaultFeatures
  /\ prompt = <<>>
  /\ input_text = <<>>
  /\ sanitized = <<>>
  /\ sensitive_content = <<>>
  /\ privacy = [risk_score |-> 1]
  /\ CliIdle
  /\ DetectIdle
  /\ RefreshIdle

AnalyzerDefault ==
  /\ config = DefaultConfig
  /\ providers = InitializeProviders(DefaultConfig, NoProviders)
  /\ imported = ProviderNames
  /\ service = ProviderOutcomes
  /\ ToolsIdle

InitPrioritize ==
  /\ suggestions = <<>>
  /\ filtered = <<>>
  /\ phase = "input"
  /\ budget = MaxAppend
  /\ raw_patterns = <<>>
  /\ external = NotConfiguredResult
  /\ AnalyzerDefault
  /\ RunsIdle

InitTruncate ==
  /\ suggestions = SeedList
  /\ filtered = <<>>
  /\ phase = "input"
  /\ budget = MaxAppend
  /\ raw_patterns = <<>>
  /\ external = NotConfiguredResult
  /\ AnalyzerDefault
  /\ RunsIdle

\* The caller appends one more record to the list it is about to pass.
AppendSuggestion ==
  /\ phase = "input"
  /\ budget > 0
  /\ \E s \in InputSuggestions : suggestions' = Append(suggestions, s)
  /\ budget' = budget - 1
  /\ UNCHANGED <<filtered, phase, raw_patterns, external, clientVars, runVars>>

\* result = analyzer._filter_and_prioritize(suggestions)
CallFilterAndPrioritize ==
  /\ phase = "input"
  /\ filtered' = FilterAndPrioritize(suggestions)
  /\ phase' = "done"
  /\ UNCHANGED <<suggestions, budget, raw_patterns, external, clientVars, runVars>>

NextPrioritize == AppendSuggestion \/ CallFilterAndPrioritize

SpecPrioritize == InitPrioritize /\ [][NextPrioritize]_vars
SpecTruncate == InitTruncate /\ [][NextPrioritize]_vars

(***************************************************************************)
(* _combine_suggestions followed by _filter_and_prioritize, called on raw  *)
(* pattern records and an external result of the caller's choice.          *)
(***************************************************************************)
\* Raw pattern records as a caller may pass them: priorities inside and
\* outside 1..5, and a record that lacks every key but code.
InputPatterns ==
  { [category |-> c, title |-> <<"Low">>, code |-> oc, priority |-> p] :
      c \in {"performance", "best_practices"}, oc \in {"", "same-code"}, p \in {0, 3, 7} }
    \cup { [code |-> "same-code"],
           [category |-> "timing", title |-> <<"Low">>, code |-> "", priority |-> 3] }

InitCombine ==
  /\ suggestions = <<>>
  /\ filtered = <<>>
  /\ phase = "input"
  /\ budget = MaxAppend
  /\ raw_patterns = <<>>
  /\ external \in {NotConfiguredResult, LlmReturned(FullResponse), LlmReturned(WrappedResponse)}
  /\ AnalyzerDefault
  /\ RunsIdle

\* The caller appends one more raw record to local_patterns.
AppendPattern ==
  /\ phase = "input"
  /\ budget > 0
  /\ \E pattern \in InputPatterns : raw_patterns' = Append(raw_patterns, pattern)
  /\ budget' = budget - 1
  /\ UNCHANGED <<suggestions, filtered, phase, external, clientVars, runVars>>

\* Mutant: the local records normalized before the external items.
CallCombineLocalFirst ==
  /\ phase = "input"
  /\ suggestions' = CombineSuggestions(raw_patterns, NotConfiguredResult)
                       \o CombineSuggestions(<<>>, external)
  /\ filtered' = FilterAndPrioritize(suggestions')
  /\ phase' = "done"
  /\ UNCHANGED <<budget, raw_patterns, external, clientVars, runVars>>

\* suggestions = self._combine_suggestions(local_patterns, llm_result)
\* suggestions = self._filter_and_prioritize(suggestions)
CallCombineAndFilter ==
  /\ phase = "input"
  /\ suggestions' = CombineSuggestions(raw_patterns, external)
  /\ filtered' = FilterAndPrioritize(suggestions')
  /\ phase' = "done"
  /\ UNCHANGED <<budget, raw_patterns, external, clientVars, runVars>>

NextCombine == AppendPattern \/ CallCombineAndFilter

SpecCombine == InitCombine /\ [][NextCombine]_vars

(***************************************************************************)
(* The same two calls on the records detect_patterns finds in the program  *)
(* of test_pattern_detection_only, and on records of the same keys that a  *)
(* caller gives a higher priority, with an external result whose items     *)
(* quote lines of that program.                                            *)
(***************************************************************************)
\* A priority above the one _combine_suggestions gives any external item.
RaisedPriority == 5

OverlapPatterns ==
  LET found == { DetectPatterns("loop")[i] : i \in 1..Len(DetectPatterns("loop")) } IN
    found \cup { [pattern EXCEPT !.priority = RaisedPriority] :
                   pattern \in { q \in found : q.category # "best_practices" } }

InitOverlap ==
  /\ suggestions = <<>>
  /\ filtered = <<>>
  /\ phase = "input"
  /\ budget = MaxAppend
  /\ raw_patterns = <<>>
  /\ external \in {NotConfiguredResult, LlmReturned(FullResponse)}
  /\ AnalyzerDefault
  /\ RunsIdle

\* The caller appends one more record to local_patterns.
AppendOverlapping ==
  /\ phase = "input"
  /\ budget > 0
  /\ \E pattern \in OverlapPatterns : raw_patterns' = Append(raw_patterns, pattern)
  /\ budget' = budget - 1
  /\ UNCHANGED <<suggestions, filtered, phase, external, clientVars, runVars>>

NextOverlap == AppendOverlapping \/ CallCombineAndFilter

SpecOverlap == InitOverlap /\ [][NextOverlap]_vars

(***************************************************************************)
(* detect_patterns called on programs a caller writes, and the aggregation *)
(* of analyze_code on what it returns when no provider is configured.      *)
(***************************************************************************)
\* How many blocks the caller's program has at most.
MaxBlocks == 3

InitDetect ==
  /\ suggestions = <<>>
  /\ filtered = <<>>
  /\ phase = "input"
  /\ budget = MaxBlocks
  /\ raw_patterns = <<>>
  /\ external = NotConfiguredResult
  /\ AnalyzerDefault
  /\ RunsIdle

\* The caller writes one more block of its program.
AppendBlock ==
  /\ phase = "input"
  /\ budget > 0
  /\ \E b \in BlockNames : source' = Append(source, b)
  /\ budget' = budget - 1
  /\ UNCHANGED <<suggestions, filtered, phase, raw_patterns, external, config, providers,
                 imported, service, promptVars, privacyVars, cliVars, detect_raised,
                 refreshVars, runVars>>

\* local_patterns = self.pattern_detector.detect_patterns(code)
CallDetectPatterns ==
  /\ phase = "input"
  /\ IF DetectPatternsRaises(SourceProgram(source))
     THEN /\ detect_raised' = <<"maximum recursion depth exceeded during ast construction">>
          /\ phase' = "raised"
          /\ UNCHANGED raw_patterns
     ELSE /\ raw_patterns' = DetectPatternsOf(SourceProgram(source))
          /\ phase' = "detected"
          /\ UNCHANGED detect_raised
  /\ UNCHANGED <<suggestions, filtered, budget, external, config, providers, imported,
                 service, promptVars, privacyVars, cliVars, source, refreshVars, runVars>>

\* analyze_code, lines 89-96, on the records detected, llm_result being the
\* placeholder of an analyzer without a provider.
AggregateDetected ==
  /\ phase = "detected"
  /\ suggestions' = CombineSuggestions(raw_patterns, external)
  /\ filtered' = FilterAndPrioritize(suggestions')
  /\ phase' = "done"
  /\ UNCHANGED <<budget, raw_patterns, external, clientVars, runVars>>

NextDetect == AppendBlock \/ CallDetectPatterns \/ AggregateDetected

SpecDetect == InitDetect /\ [][NextDetect]_vars

(***************************************************************************)
(* PromptBuilder(enabled_features).build_analysis_prompt() on every map.   *)
(***************************************************************************)
InitPrompt ==
  /\ suggestions = <<>>
  /\ filtered = <<>>
  /\ phase = "input"
  /\ budget = 0
  /\ raw_patterns = <<>>
  /\ external = NotConfiguredResult
  /\ config = DefaultConfig
  /\ providers = InitializeProviders(DefaultConfig, NoProviders)
  /\ imported = ProviderNames
  /\ service = ProviderOutcomes
  /\ features \in FeatureMaps
  /\ prompt = <<>>
  /\ input_text = <<>>
  /\ sanitized = <<>>
  /\ sensitive_content = <<>>
  /\ privacy = [risk_score |-> 1]
  /\ CliIdle
  /\ DetectIdle
  /\ RefreshIdle
  /\ RunsIdle

\* prompt = self.prompt_builder.build_analysis_prompt()
CallBuildAnalysisPrompt ==
  /\ phase = "input"
  /\ prompt' = BuildAnalysisPrompt(features)
  /\ phase' = "done"
  /\ UNCHANGED <<suggestions, filtered, budget, raw_patterns, external, config, providers,
                 imported, service, features, privacyVars, cliVars, detectVars, refreshVars, runVars>>

NextPrompt == CallBuildAnalysisPrompt

SpecPrompt == InitPrompt /\ [][NextPrompt]_vars

(***************************************************************************)
(* CodeSanitizer.sanitize_code, PrivacyManager.analyze_code_privacy and    *)
(* _calculate_privacy_risk called on texts and lists a caller builds.      *)
(***************************************************************************)
\* How many lines the caller's text has at most.
MaxLines == 3

\* How many items the list handed to _calculate_privacy_risk has at most.
MaxDetections == 2

\* Two lines no pattern matches (the second too short for the key
\* pattern), and one line per kind of sensitive content.
InputLines ==
  {"import time", "api_key = \"short\"",
   "api_key = \"sk-1234567890abcdefghij\"", "token = \"ghp_abcdefghijklmnopqrstuvwx\"",
   "secret = \"correct-horse-battery\"", "mysql://db.example.org/exp",
   "/home/alice/data.csv", "researcher@university.edu", "192.168.1.100",
   "http://bob:pw@localhost/x"}

\* The kinds an item handed to _calculate_privacy_risk can carry: those of
\* risk_weights and one that is not among them.
InputKinds == DOMAIN RiskWeights \cup {"PASSWORD"}

InitPrivacy ==
  /\ suggestions = <<>>
  /\ filtered = <<>>
  /\ phase = "input"
  /\ budget = MaxLines
  /\ raw_patterns = <<>>
  /\ external = NotConfiguredResult
  /\ AnalyzerDefault
  /\ RunsIdle

\* The caller adds a line to its text.
AppendLine ==
  /\ phase = "input"
  /\ budget > 0
  /\ \E line \in InputLines : input_text' = Append(input_text, line)
  /\ budget' = budget - 1
  /\ UNCHANGED <<suggestions, filtered, phase, raw_patterns, external, config, providers,
                 imported, service, promptVars, sanitized, sensitive_content, privacy,
                 cliVars, detectVars, refreshVars, runVars>>

\* sanitized, replacements = self.code_sanitizer.sanitize_code(code)
CallSanitizeCode ==
  /\ phase = "input"
  /\ sanitized' = SanitizeCode(input_text)
  /\ phase' = "sanitized"
  /\ UNCHANGED <<suggestions, filtered, budget, raw_patterns, external, config, providers,
                 imported, service, promptVars, input_text, sensitive_content, privacy,
                 cliVars, detectVars, refreshVars, runVars>>

\* analysis = self.privacy_manager.analyze_code_privacy(code)
CallAnalyzeCodePrivacy ==
  /\ phase = "input"
  /\ sensitive_content' = CheckForSensitiveContent(input_text)
  /\ privacy' = AnalyzeCodePrivacy(input_text)
  /\ phase' = "analyzed"
  /\ UNCHANGED <<suggestions, filtered, budget, raw_patterns, external, config, providers,
                 imported, service, promptVars, input_text, sanitized, cliVars, detectVars, refreshVars, runVars>>

\* _calculate_privacy_risk called on a list of the caller's own.
CallCalculatePrivacyRisk ==
  /\ phase = "input"
  /\ input_text = <<>>
  /\ \E n \in 1..MaxDetections : \E kinds \in [1..n -> InputKinds] :
       sensitive_content' = [i \in 1..n |-> [type |-> kinds[i], content |-> "", line |-> i]]
  /\ privacy' = [risk_score |-> CalculatePrivacyRisk(sensitive_content')]
  /\ phase' = "scored"
  /\ UNCHANGED <<suggestions, filtered, budget, raw_patterns, external, config, providers,
                 imported, service, promptVars, input_text, sanitized, cliVars, detectVars, refreshVars, runVars>>

NextPrivacy ==
  \/ AppendLine
  \/ CallSanitizeCode
  \/ CallAnalyzeCodePrivacy
  \/ CallCalculatePrivacyRisk

SpecPrivacy == InitPrivacy /\ [][NextPrivacy]_vars

(***************************************************************************)
(* Analysis runs: analyze_code_async starts a thread that runs              *)
(* _analyze_code_thread, which calls analyze_code and then the callback.   *)
(* A thread can be preempted between any two of its steps.                 *)
(***************************************************************************)
ImportChoices == {ProviderNames, {"anthropic", "google"}}

\* The analyzer after CodeAnalyzer(config_manager), for any stored
\* configuration, with no run started.
Init ==
  /\ suggestions = <<>>
  /\ filtered = <<>>
  /\ phase = "idle"
  /\ budget = 0
  /\ raw_patterns = <<>>
  /\ external = NotConfiguredResult
  /\ config \in Configs
  /\ providers = InitializeProviders(config, NoProviders)
  /\ imported \in ImportChoices
  /\ service = ProviderOutcomes
  /\ ToolsIdle
  /\ RunsIdle

\* analyze_code_async(code, callback): thread.start()
StartRun(r) ==
  /\ r <= MaxRuns
  /\ pc[r] = "idle"
  /\ \E c \in Codes : code' = [code EXCEPT ![r] = c]
  /\ pc' = [pc EXCEPT ![r] = "parse"]
  /\ UNCHANGED <<aggVars, clientVars, local, llm, configured, result, delivered, sent,
                 clientCalls, detectCalls, escaped>>

\* Mutant: the run going from the syntax check straight to the provider.
SyntaxCheckThenProvider(r) ==
  /\ pc[r] = "parse"
  /\ IF Program(code[r]).parse = "ok"
     THEN /\ pc' = [pc EXCEPT ![r] = "llm"]
          /\ UNCHANGED result
     ELSE /\ result' = [result EXCEPT ![r] = Some(SyntaxErrorResult(SyntaxErrorText(code[r])))]
          /\ pc' = [pc EXCEPT ![r] = "callback"]
  /\ UNCHANGED <<aggVars, clientVars, code, local, llm, configured, delivered, sent,
                 clientCalls, detectCalls, escaped>>

\* Mutant: the syntax check left out, every code going on to detection.
SyntaxCheckLeftOut(r) ==
  /\ pc[r] = "parse"
  /\ pc' = [pc EXCEPT ![r] = "detect"]
  /\ UNCHANGED <<aggVars, clientVars, code, local, llm, configured, result, delivered, sent,
                 clientCalls, detectCalls, escaped>>

\* analyze_code, lines 75-84: ast.parse(code); a SyntaxError returns at once.
SyntaxCheck(r) ==
  /\ pc[r] = "parse"
  /\ IF Program(code[r]).parse = "ok"
     THEN /\ pc' = [pc EXCEPT ![r] = "detect"]
          /\ UNCHANGED result
     ELSE /\ result' = [result EXCEPT ![r] = Some(SyntaxErrorResult(SyntaxErrorText(code[r])))]
          /\ pc' = [pc EXCEPT ![r] = "callback"]
  /\ UNCHANGED <<aggVars, clientVars, code, local, llm, configured, delivered, sent,
                 clientCalls, detectCalls, escaped>>

\* Mutant: the detector keeping its findings in one list of the instance,
\* which every run reads.
DetectLocalPatternsShared(r) ==
  /\ pc[r] = "detect"
  /\ local' = [q \in Runs |-> DetectPatterns(code[r])]
  /\ detectCalls' = [detectCalls EXCEPT ![r] = @ + 1]
  /\ pc' = [pc EXCEPT ![r] = "llm"]
  /\ UNCHANGED <<aggVars, clientVars, code, llm, configured, result, delivered, sent,
                 clientCalls, escaped>>

\* analyze_code, line 87: local_patterns = self.pattern_detector.detect_patterns(code)
DetectLocalPatterns(r) ==
  /\ pc[r] = "detect"
  /\ local' = [local EXCEPT ![r] = DetectPatterns(code[r])]
  /\ detectCalls' = [detectCalls EXCEPT ![r] = @ + 1]
  /\ pc' = [pc EXCEPT ![r] = "llm"]
  /\ UNCHANGED <<aggVars, clientVars, code, llm, configured, result, delivered, sent,
                 clientCalls, escaped>>

\* Mutant: the answer of is_configured not acted on.
CheckConfiguredIgnored(r) ==
  /\ pc[r] = "llm"
  /\ configured' = [configured EXCEPT ![r] =
                      IF IsConfigured(config, providers, imported) THEN "yes" ELSE "no"]
  /\ pc' = [pc EXCEPT ![r] = "call"]
  /\ UNCHANGED <<aggVars, clientVars, code, local, llm, result, delivered, sent,
                 clientCalls, detectCalls, escaped>>

\* _get_llm_analysis, lines 118-127: the is_configured test, and the
\* placeholder when it fails.
CheckConfigured(r) ==
  /\ pc[r] = "llm"
  /\ IF IsConfigured(config, providers, imported)
     THEN /\ configured' = [configured EXCEPT ![r] = "yes"]
          /\ pc' = [pc EXCEPT ![r] = "call"]
          /\ UNCHANGED llm
     ELSE /\ configured' = [configured EXCEPT ![r] = "no"]
          /\ llm' = [llm EXCEPT ![r] = NotConfiguredResult]
          /\ pc' = [pc EXCEPT ![r] = "aggregate"]
  /\ UNCHANGED <<aggVars, clientVars, code, local, result, delivered, sent,
                 clientCalls, detectCalls, escaped>>

\* The text analyze_code passes on: the code as it was given.
CodeForProvider(c) == Program(c).lines

\* Mutant: _get_llm_analysis without its try, the exception of the client
\* reaching the except clause of analyze_code.
CallClientUncaught(r) ==
  /\ pc[r] = "call"
  /\ \E outcome \in service :
       LET answer == ClientAnalyzeCode(config, providers, imported, outcome) IN
         /\ sent' = [sent EXCEPT ![r] = IF answer.reached
                                        THEN Append(@, CodeForProvider(code[r])) ELSE @]
         /\ IF answer.raised
            THEN /\ result' = [result EXCEPT ![r] = Some(AnalysisFailedResult(answer.error))]
                 /\ pc' = [pc EXCEPT ![r] = "callback"]
                 /\ UNCHANGED llm
            ELSE /\ llm' = [llm EXCEPT ![r] = LlmReturned(answer.value)]
                 /\ pc' = [pc EXCEPT ![r] = "aggregate"]
                 /\ UNCHANGED result
  /\ clientCalls' = [clientCalls EXCEPT ![r] = @ + 1]
  /\ UNCHANGED <<aggVars, clientVars, code, local, configured, delivered,
                 detectCalls, escaped>>

\* _get_llm_analysis, lines 129-138: self.llm_client.analyze_code(code, prompt)
\* and the placeholder for any exception it raises.
CallClient(r) ==
  /\ pc[r] = "call"
  /\ \E outcome \in service :
       LET answer == ClientAnalyzeCode(config, providers, imported, outcome) IN
         /\ sent' = [sent EXCEPT ![r] = IF answer.reached
                                        THEN Append(@, CodeForProvider(code[r])) ELSE @]
         /\ llm' = [llm EXCEPT ![r] = IF answer.raised THEN LlmFailedResult(answer.error)
                                      ELSE LlmReturned(answer.value)]
  /\ clientCalls' = [clientCalls EXCEPT ![r] = @ + 1]
  /\ pc' = [pc EXCEPT ![r] = "aggregate"]
  /\ UNCHANGED <<aggVars, clientVars, code, local, configured, result, delivered,
                 detectCalls, escaped>>

\* analyze_code, lines 92-114.
Aggregate(r) ==
  /\ pc[r] = "aggregate"
  /\ result' = [result EXCEPT ![r] = Some(CombineAndReturn(local[r], llm[r]))]
  /\ pc' = [pc EXCEPT ![r] = "callback"]
  /\ UNCHANGED <<aggVars, clientVars, code, local, llm, configured, delivered, sent,
                 clientCalls, detectCalls, escaped>>

\* _analyze_code_thread, line 60: callback(result).  The callback returns or
\* raises; an exception it raises is caught by the except clause.
InvokeCallback(r) ==
  /\ pc[r] = "callback"
  /\ delivered' = [delivered EXCEPT ![r] = Append(@, result[r][1])]
  /\ \E raises \in BOOLEAN :
       pc' = [pc EXCEPT ![r] = IF raises THEN "except" ELSE "done"]
  /\ UNCHANGED <<aggVars, clientVars, code, local, llm, configured, result, sent,
                 clientCalls, detectCalls, escaped>>

\* _analyze_code_thread, lines 61-67: the except clause calls the callback
\* with a failure result; an exception raised here leaves the thread.
InvokeCallbackOnException(r) ==
  /\ pc[r] = "except"
  /\ delivered' = [delivered EXCEPT ![r] = Append(@, ThreadFailureResult(<<"callback failed">>))]
  /\ \E raises \in BOOLEAN : escaped' = [escaped EXCEPT ![r] = raises]
  /\ pc' = [pc EXCEPT ![r] = "done"]
  /\ UNCHANGED <<aggVars, clientVars, code, local, llm, configured, result, sent,
                 clientCalls, detectCalls>>

Next ==
  \E r \in Runs :
    \/ StartRun(r)
    \/ SyntaxCheck(r)
    \/ DetectLocalPatterns(r)
    \/ CheckConfigured(r)
    \/ CallClient(r)
    \/ Aggregate(r)
    \/ InvokeCallback(r)
    \/ InvokeCallbackOnException(r)

Spec == Init /\ [][Next]_vars

\* The analyzer without a key, or with a key stored for the active provider,
\* and no run started.
InitLive ==
  /\ suggestions = <<>>
  /\ filtered = <<>>
  /\ phase = "idle"
  /\ budget = 0
  /\ raw_patterns = <<>>
  /\ external = NotConfiguredResult
  /\ config \in {DefaultConfig, [DefaultConfig EXCEPT !.api_keys.openai = "sk-key"]}
  /\ providers = InitializeProviders(config, NoProviders)
  /\ imported = ProviderNames
  /\ service = ProviderOutcomes
  /\ ToolsIdle
  /\ RunsIdle

\* A started thread is scheduled until it ends, and the provider call
\* returns or raises (a timeout is an exception): no step of the thread
\* stays enabled forever without being taken.  For the two steps that
\* compute the detection and the aggregation the same is said through the
\* stage, which the step is enabled at and always leaves.
ThreadFairness(r) ==
  /\ WF_vars(SyntaxCheck(r))
  /\ []<>(pc[r] # "detect")
  /\ WF_vars(CheckConfigured(r))
  /\ WF_vars(CallClient(r))
  /\ []<>(pc[r] # "aggregate")
  /\ WF_vars(InvokeCallback(r))
  /\ WF_vars(InvokeCallbackOnException(r))

SpecLive == InitLive /\ [][Next]_vars /\ \A r \in Runs : ThreadFairness(r)

(***************************************************************************)
(* Several runs started on one analyzer, each on its own code, while the   *)
(* configuration stays as it is.                                           *)
(***************************************************************************)
\* The programs the concurrent callers submit.
ConcurrentCodes == {"loop", "secret"}

\* The analyzer without a key, and with a key stored for the active provider.
ConcurrentConfigs == {DefaultConfig, [DefaultConfig EXCEPT !.api_keys.openai = "sk-key"]}

\* The remote API failing, answering as asked, and answering with a list
\* item that is not a map.
ConcurrentOutcomes ==
  {[raises |-> TRUE, error |-> "Connection timed out"],
   [raises |-> FALSE, value |-> FullResponse],
   [raises |-> FALSE, value |-> ItemNotMapResponse]}

InitConcurrent ==
  /\ suggestions = <<>>
  /\ filtered = <<>>
  /\ phase = "idle"
  /\ budget = 0
  /\ raw_patterns = <<>>
  /\ external = NotConfiguredResult
  /\ config \in ConcurrentConfigs
  /\ providers = InitializeProviders(config, NoProviders)
  /\ imported = ProviderNames
  /\ service = ConcurrentOutcomes
  /\ ToolsIdle
  /\ RunsIdle

\* analyze_code_async(code, callback) called while other runs are in flight.
StartConcurrentRun(r) ==
  /\ r <= MaxConcurrent
  /\ pc[r] = "idle"
  /\ \E c \in ConcurrentCodes : code' = [code EXCEPT ![r] = c]
  /\ pc' = [pc EXCEPT ![r] = "parse"]
  /\ UNCHANGED <<aggVars, clientVars, local, llm, configured, result, delivered, sent,
                 clientCalls, detectCalls, escaped>>

NextConcurrent ==
  \E r \in Runs :
    \/ StartConcurrentRun(r)
    \/ SyntaxCheck(r)
    \/ DetectLocalPatterns(r)
    \/ CheckConfigured(r)
    \/ CallClient(r)
    \/ Aggregate(r)
    \/ InvokeCallback(r)
    \/ InvokeCallbackOnException(r)

SpecConcurrent == InitConcurrent /\ [][NextConcurrent]_vars

(***************************************************************************)
(* The configuration written, and refresh_configuration called, by the     *)
(* thread that owns the user interface while a run is in flight on the     *)
(* same analyzer.  The writes and the refresh are calls of one thread, so  *)
(* they follow each other; the run's thread can be scheduled between any   *)
(* two statements of them.                                                 *)
(***************************************************************************)
\* How many writes and refreshes the user interface thread makes.
MaxChanges == 3

\* The analyzer built without a key, with a key for the active provider, and
\* with keys for two providers.
RefreshConfigs ==
  {DefaultConfig,
   [DefaultConfig EXCEPT !.api_keys.openai = "sk-key"],
   [DefaultConfig EXCEPT !.api_keys.openai = "sk-key", !.api_keys.anthropic = "sk-key"]}

\* The remote API failing, and answering as asked.
RefreshOutcomes ==
  {[raises |-> TRUE, error |-> "Connection timed out"],
   [raises |-> FALSE, value |-> FullResponse]}

\* The providers and the keys the settings are changed for.
SettingsProviders == {"openai", "anthropic"}
SettingsKeys == {"sk-key", ""}

\* A set of flags the settings dialog stores, and the flag a dotted write
\* turns off.
DialogFeatures == [DefaultFeatures EXCEPT !.builder_mapping = FALSE]
DottedFeature == "best_practices"

\* The order in which _initialize_providers reads the keys.
NextToInitialize(stage) ==
  CASE stage = "openai" -> "anthropic"
    [] stage = "anthropic" -> "google"
    [] stage = "google" -> "prompt_builder"

InitRefresh ==
  /\ suggestions = <<>>
  /\ filtered = <<>>
  /\ phase = "idle"
  /\ budget = 0
  /\ raw_patterns = <<>>
  /\ external = NotConfiguredResult
  /\ config \in RefreshConfigs
  /\ providers = InitializeProviders(config, NoProviders)
  /\ imported = ProviderNames
  /\ service = RefreshOutcomes
  /\ ToolsIdle
  /\ RunsIdle

\* analyze_code_async(code, callback) on the program of
\* test_pattern_detection_only.
StartRefreshRun(r) ==
  /\ r = 1
  /\ pc[r] = "idle"
  /\ code' = [code EXCEPT ![r] = "loop"]
  /\ pc' = [pc EXCEPT ![r] = "parse"]
  /\ UNCHANGED <<aggVars, clientVars, local, llm, configured, result, delivered, sent,
                 clientCalls, detectCalls, escaped>>

\* config_manager.set('api_provider', provider)
SetActiveProvider ==
  /\ ui = "idle"
  /\ changes < MaxChanges
  /\ \E p \in SettingsProviders : config' = [config EXCEPT !.api_provider = p]
  /\ changes' = changes + 1
  /\ UNCHANGED <<aggVars, runVars, providers, imported, service, promptVars, privacyVars,
                 cliVars, detectVars, stored_features, shared, ui, built_from,
                 flags_at_refresh, stale>>

\* config_manager.set_api_key(provider, api_key)
SetApiKey ==
  /\ ui = "idle"
  /\ changes < MaxChanges
  /\ \E p \in SettingsProviders, key \in SettingsKeys :
       config' = [config EXCEPT !.api_keys[p] = key]
  /\ changes' = changes + 1
  /\ UNCHANGED <<aggVars, runVars, providers, imported, service, promptVars, privacyVars,
                 cliVars, detectVars, stored_features, shared, ui, built_from,
                 flags_at_refresh, stale>>

\* config_manager.set('analysis_features', features): the dict stored under
\* the key is replaced by another one.
SetFeatures ==
  /\ ui = "idle"
  /\ changes < MaxChanges
  /\ stored_features' = DialogFeatures
  /\ shared' = FALSE
  /\ changes' = changes + 1
  /\ UNCHANGED <<aggVars, runVars, config, providers, imported, service, promptVars,
                 privacyVars, cliVars, detectVars, ui, built_from, flags_at_refresh, stale>>

\* config_manager.set('analysis_features.best_practices', False): set walks
\* to the dict stored under 'analysis_features' and assigns the flag in it;
\* a prompt builder that was given this dict reads the new flag.
SetFeatureFlag ==
  /\ ui = "idle"
  /\ changes < MaxChanges
  /\ stored_features' = [stored_features EXCEPT ![DottedFeature] = FALSE]
  /\ features' = IF shared THEN stored_features' ELSE features
  /\ changes' = changes + 1
  /\ UNCHANGED <<aggVars, runVars, config, providers, imported, service, prompt,
                 privacyVars, cliVars, detectVars, shared, ui, built_from,
                 flags_at_refresh, stale>>

\* Mutant: refresh_providers without the clear.
RefreshKeepProviders ==
  /\ ui = "idle"
  /\ changes < MaxChanges
  /\ stale' = DOMAIN providers
  /\ built_from' = config.api_keys
  /\ ui' = "openai"
  /\ changes' = changes + 1
  /\ UNCHANGED <<aggVars, runVars, config, providers, imported, service, promptVars,
                 privacyVars, cliVars, detectVars, stored_features, shared,
                 flags_at_refresh>>

\* refresh_configuration entered, refresh_providers: self.providers.clear()
RefreshClear ==
  /\ ui = "idle"
  /\ changes < MaxChanges
  /\ providers' = NoProviders
  /\ stale' = DOMAIN providers \cap DOMAIN providers'
  /\ built_from' = config.api_keys
  /\ ui' = "openai"
  /\ changes' = changes + 1
  /\ UNCHANGED <<aggVars, runVars, config, imported, service, promptVars, privacyVars,
                 cliVars, detectVars, stored_features, shared, flags_at_refresh>>

\* _initialize_providers, one of its three if statements: the key is read
\* and, when it is truthy, a provider object made and stored under the name.
InitializeProvider ==
  /\ ui \in ProviderNames
  /\ IF Truthy(config.api_keys[ui])
     THEN /\ providers' = [n \in DOMAIN providers \cup {ui} |->
                             IF n = ui THEN [name |-> ui, api_key |-> config.api_keys[ui]]
                             ELSE providers[n]]
          /\ stale' = stale \ {ui}
     ELSE UNCHANGED <<providers, stale>>
  /\ ui' = NextToInitialize(ui)
  /\ UNCHANGED <<aggVars, runVars, config, imported, service, promptVars, privacyVars,
                 cliVars, detectVars, stored_features, shared, changes, built_from,
                 flags_at_refresh>>

\* refresh_configuration, line 221:
\* self.prompt_builder = PromptBuilder(self.config_manager.get_enabled_features())
RefreshPromptBuilder ==
  /\ ui = "prompt_builder"
  /\ features' = stored_features
  /\ shared' = TRUE
  /\ flags_at_refresh' = stored_features
  /\ ui' = "idle"
  /\ UNCHANGED <<aggVars, runVars, config, providers, imported, service, prompt,
                 privacyVars, cliVars, detectVars, stored_features, changes, built_from,
                 stale>>

NextRefresh ==
  \/ SetActiveProvider
  \/ SetApiKey
  \/ SetFeatures
  \/ SetFeatureFlag
  \/ RefreshClear
  \/ InitializeProvider
  \/ RefreshPromptBuilder
  \/ \E r \in Runs :
       \/ StartRefreshRun(r)
       \/ SyntaxCheck(r)
       \/ DetectLocalPatterns(r)
       \/ CheckConfigured(r)
       \/ CallClient(r)
       \/ Aggregate(r)
       \/ InvokeCallback(r)
       \/ InvokeCallbackOnException(r)

SpecRefresh == InitRefresh /\ [][NextRefresh]_vars

(***************************************************************************)
(* The command line interface: main() configures a ConfigManager from the  *)
(* stored file and the command line, builds the analyzer on it and runs    *)
(* analyze_code on the script.                                             *)
(***************************************************************************)
\* The scripts named on the command line; "missing" is a path with no file.
CliPaths == {"loop", "broken", "missing"}

\* --provider is one of the choices or left out.
CliProviders == {"<None>", "openai", "anthropic"}

\* The parsed command line, with env_key the environment variable of the
\* provider named (NoKey when unset).
CliArgs ==
  [path : CliPaths, provider : CliProviders, api_key : {NoKey, "sk-cli"},
   env_key : {NoKey, "sk-env"}, no_llm : BOOLEAN]

\* What the configuration file can hold: nothing (no file), text that is not
\* JSON, the defaults, or a provider with its key from an earlier session.
ConfigFiles ==
  {NoConfigFile, [exists |-> TRUE, valid |-> FALSE, content |-> DefaultConfig]}
    \cup {[exists |-> TRUE, valid |-> TRUE, content |-> c] :
            c \in {DefaultConfig, [DefaultConfig EXCEPT !.api_keys.openai = "sk-key"],
                   [DefaultConfig EXCEPT !.api_provider = "anthropic",
                                         !.api_keys.anthropic = "sk-key"]}}

\* ConfigManager._load_config
LoadConfig(file) == IF file.exists /\ file.valid THEN file.content ELSE DefaultConfig

\* main, line 94: provider = None if args.no_llm else args.provider
CliProvider(args) == IF args.no_llm THEN "<None>" ELSE args.provider

\* main, line 95: key = None if args.no_llm else (args.api_key or (provider
\* and env_key_map.get(provider)))
CliKey(args) ==
  IF args.no_llm THEN NoKey
  ELSE IF Truthy(args.api_key) THEN args.api_key
  ELSE IF CliProvider(args) # "<None>" THEN args.env_key ELSE NoKey

\* _configure_for_cli: the configuration is the one the file holds, changed
\* only when provider and key are given and the LLM is not disabled.
ConfigureForCli(file, provider, api_key, disable_llm) ==
  LET cfg == LoadConfig(file) IN
    IF provider # "<None>" /\ Truthy(api_key) /\ ~disable_llm
    THEN [cfg EXCEPT !.api_provider = provider, !.api_keys[provider] = api_key]
    ELSE cfg

\* The user's shell before main() runs: any command line, any stored file.
InitCli ==
  /\ suggestions = <<>>
  /\ filtered = <<>>
  /\ phase = "idle"
  /\ budget = 0
  /\ raw_patterns = <<>>
  /\ external = NotConfiguredResult
  /\ config = DefaultConfig
  /\ providers = NoProviders
  /\ imported = ProviderNames
  /\ service = ConcurrentOutcomes
  /\ features = DefaultFeatures
  /\ prompt = <<>>
  /\ input_text = <<>>
  /\ sanitized = <<>>
  /\ sensitive_content = <<>>
  /\ privacy = [risk_score |-> 1]
  /\ argv \in CliArgs
  /\ config_file \in ConfigFiles
  /\ cli_stage = "parsed"
  /\ exit_code = <<>>
  /\ DetectIdle
  /\ RefreshIdle
  /\ RunsIdle

\* main, lines 94-98: cfg = _configure_for_cli(...); analyzer =
\* CodeAnalyzer(cfg).  ConfigManager.set saves the file.
CliConfigure ==
  /\ cli_stage = "parsed"
  /\ LET provider == CliProvider(argv)
         key == CliKey(argv)
         disable_llm == argv.no_llm \/ ~Truthy(key)
         cfg == ConfigureForCli(config_file, provider, key, disable_llm)
     IN /\ config' = cfg
        /\ config_file' = IF cfg = LoadConfig(config_file) /\ (disable_llm \/ provider = "<None>")
                          THEN config_file
                          ELSE [exists |-> TRUE, valid |-> TRUE, content |-> cfg]
        /\ providers' = InitializeProviders(cfg, NoProviders)
  /\ cli_stage' = "configured"
  /\ UNCHANGED <<aggVars, imported, service, promptVars, privacyVars, detectVars, refreshVars, argv, exit_code,
                 runVars>>

\* main, lines 100-105: _read_code(args.path), then analyzer.analyze_code;
\* a path without a file ends main with 1.
CliAnalyze ==
  /\ cli_stage = "configured"
  /\ IF argv.path = "missing"
     THEN /\ exit_code' = <<1>>
          /\ cli_stage' = "exited"
          /\ UNCHANGED <<code, pc>>
     ELSE /\ code' = [code EXCEPT ![1] = argv.path]
          /\ pc' = [pc EXCEPT ![1] = "parse"]
          /\ cli_stage' = "running"
          /\ UNCHANGED exit_code
  /\ UNCHANGED <<aggVars, config, providers, imported, service, promptVars, privacyVars, detectVars, refreshVars,
                 argv, config_file, local, llm, configured, result, delivered, sent,
                 clientCalls, detectCalls, escaped>>

\* main, lines 107-120: the result printed, return 0 if result.success else 2
CliOutput ==
  /\ cli_stage = "running"
  /\ pc[1] = "callback"
  /\ exit_code' = IF result[1][1].success THEN <<0>> ELSE <<2>>
  /\ pc' = [pc EXCEPT ![1] = "done"]
  /\ cli_stage' = "exited"
  /\ UNCHANGED <<aggVars, config, providers, imported, service, promptVars, privacyVars, detectVars, refreshVars,
                 argv, config_file, code, local, llm, configured, result, delivered, sent,
                 clientCalls, detectCalls, escaped>>

NextCli ==
  \/ CliConfigure
  \/ CliAnalyze
  \/ SyntaxCheck(1)
  \/ DetectLocalPatterns(1)
  \/ CheckConfigured(1)
  \/ CallClient(1)
  \/ Aggregate(1)
  \/ CliOutput

SpecCli == InitCli /\ [][NextCli]_vars

(***************************************************************************)
(* Properties of _filter_and_prioritize.                                   *)
(***************************************************************************)
Range(seq) == { seq[i] : i \in 1..Len(seq) }
Keys(suggs) == { DedupKey(s) : s \in Range(suggs) }
MaxPriority(suggs, key) ==
  CHOOSE p \in { s.priority : s \in { x \in Range(suggs) : DedupKey(x) = key } } :
    \A s \in Range(suggs) : DedupKey(s) = key => s.priority <= p

\* C1: the output holds at most one record per (category, original_code)
\* key, exactly one per key when the input has at most 10 distinct keys, and
\* the priority of a key's record is the maximum priority of the input
\* records sharing the key.
C1_DedupKeepsMax ==
  phase = "done" =>
    /\ \A i, j \in 1..Len(filtered) :
         DedupKey(filtered[i]) = DedupKey(filtered[j]) => i = j
    /\ \A i \in 1..Len(filtered) :
         /\ filtered[i] \in Range(suggestions)
         /\ filtered[i].priority = MaxPriority(suggestions, DedupKey(filtered[i]))
    /\ Cardinality(Keys(suggestions)) <= 10 => Keys(filtered) = Keys(suggestions)

\* A key with three records of priorities 1, 5, 3 in this order (the unit
\* test's input) has been reduced to its priority-5 record.
C1_Witness ==
  /\ phase = "done"
  /\ \E i \in 1..Len(suggestions) - 2 :
       /\ DedupKey(suggestions[i]) = DedupKey(suggestions[i + 1])
       /\ DedupKey(suggestions[i]) = DedupKey(suggestions[i + 2])
       /\ suggestions[i].priority = 1
       /\ suggestions[i + 1].priority = 5
       /\ suggestions[i + 2].priority = 3
       /\ \E k \in 1..Len(filtered) : filtered[k] = suggestions[i + 1]

\* a.category <= b.category and a.title <= b.title as Python compares str.
StrLeq(s, t) == ~StrLess(t, s)
TitleLeq(s, t) == ~TitleLess(t, s)

\* C2: every adjacent pair (a, b) of the output has a.priority > b.priority,
\* or equal priorities and a.category <= b.category, or equal priority and
\* category and a.title <= b.title.
C2_SortedOutput ==
  phase = "done" =>
    \A i \in 1..Len(filtered) - 1 :
      LET a == filtered[i]
          b == filtered[i + 1]
      IN \/ a.priority > b.priority
         \/ /\ a.priority = b.priority
            /\ a.category # b.category
            /\ StrLeq(a.category, b.category)
         \/ /\ a.priority = b.priority
            /\ a.category = b.category
            /\ TitleLeq(a.title, b.title)

\* The sort moved a record: the input came with the later title first, and a
\* pair of equal priority and category is ordered by title in the output.
C2_Witness ==
  /\ phase = "done"
  /\ Len(filtered) >= 2
  /\ filtered # BestMap(suggestions)
  /\ \E i \in 1..Len(filtered) - 1 :
       /\ filtered[i].priority = filtered[i + 1].priority
       /\ filtered[i].category = filtered[i + 1].category
       /\ TitleLess(filtered[i].title, filtered[i + 1].title)

\* The list `suggs` reordered by the permutation p of its indices.
Reordered(suggs, p) == [i \in 1..Len(suggs) |-> suggs[p[i]]]

\* The input records that carry the maximum priority of their key.
MaxRecords(suggs) ==
  { s \in Range(suggs) : s.priority = MaxPriority(suggs, DedupKey(s)) }

\* Among the records carrying their key's maximum priority no two different
\* records share a dedup key, and no two share (priority, category, title).
OrderDetermined(suggs) ==
  \A a, b \in MaxRecords(suggs) :
    a # b =>
      /\ DedupKey(a) # DedupKey(b)
      /\ ~(a.priority = b.priority /\ a.category = b.category /\ TitleEq(a.title, b.title))

\* C3 as amended: for every input list in which, among the records carrying
\* their key's maximum priority, no two different records share a dedup key
\* or share (priority, category, title), every permutation of the list gives
\* the identical output sequence.
C3_OrderIndependentWhenDetermined ==
  (phase = "done" /\ OrderDetermined(suggestions)) =>
    \A p \in Permutations(1..Len(suggestions)) :
      FilterAndPrioritize(Reordered(suggestions, p)) = filtered

\* Three different records, two of them on one key, in an order the sort
\* had to change.
C3_Witness ==
  /\ phase = "done"
  /\ OrderDetermined(suggestions)
  /\ Cardinality(Range(suggestions)) = 3
  /\ Len(filtered) = 2
  /\ filtered # BestMap(suggestions)

\* C3 as claimed: every permutation of every input list gives the identical
\* output sequence, also with equal-priority records on one key or records
\* equal in (priority, category, title).
C3_OrderIndependent ==
  phase = "done" =>
    \A p \in Permutations(1..Len(suggestions)) :
      FilterAndPrioritize(Reordered(suggestions, p)) = filtered

\* C4: the output never holds more than 10 records; with more than 10
\* distinct keys in the input it holds exactly 10, the first 10 of the sorted
\* deduplicated list, and no record left out ranks before a record kept.
C4_TruncationBound ==
  phase = "done" =>
    /\ Len(filtered) <= 10
    /\ Cardinality(Keys(suggestions)) > 10 =>
         /\ Len(filtered) = 10
         /\ filtered = SubSeq(StableSort(BestMap(suggestions)), 1, 10)
         /\ \A x \in Range(BestMap(suggestions)) \ Range(filtered) :
              \A y \in Range(filtered) : ~SortKeyLess(x, y)

\* An input of 12 distinct keys has been cut to 10 records.
C4_Witness ==
  /\ phase = "done"
  /\ Cardinality(Keys(suggestions)) = 12
  /\ Len(filtered) = 10

(***************************************************************************)
(* Properties of a run of analyze_code_async.                              *)
(***************************************************************************)
Started(r) == pc[r] # "idle"
Returned(r) == result[r] # None
SyntaxFails(r) == Program(code[r]).parse = "SyntaxError"

\* An external result with nothing in any of its lists.
NoExternal ==
  [builder_mapping |-> <<>>, performance_optimizations |-> <<>>,
   best_practices |-> <<>>, general_suggestions |-> <<>>]

\* The aggregation of the local records of a program alone.
LocalOnly(c) == FilterAndPrioritize(CombineSuggestions(DetectPatterns(c), NoExternal))

ExternalFailed(r) ==
  /\ clientCalls[r] > 0
  /\ Get(llm[r], "summary", <<"">>)[1] = "LLM analysis failed: "

\* C6: when a provider is configured and its analyze_code raises, the run
\* still returns success = TRUE, and its suggestions are the aggregation of
\* the local pattern records with nothing from the external side.
C6_DegradeOnExternalFailure ==
  \A r \in Runs :
    (configured[r] = "yes" /\ ExternalFailed(r) /\ Returned(r)) =>
      /\ result[r][1].success = TRUE
      /\ result[r][1].error_message = None
      /\ result[r][1].suggestions = LocalOnly(code[r])

\* A finished run on the loop program whose provider was reached and raised,
\* and which returned local suggestions.
C6_Witness ==
  \E r \in Runs :
    /\ pc[r] = "done"
    /\ code[r] = "loop"
    /\ configured[r] = "yes"
    /\ sent[r] # <<>>
    /\ ExternalFailed(r)
    /\ result[r][1].suggestions # <<>>

\* C7: when is_configured answers false, the run never calls the client's
\* analyze_code; the external result is the placeholder with summary
\* 'LLM not configured' and empty lists, and the run returns success = TRUE
\* with the suggestions of the local records alone.
C7_NoCallWhenNotConfigured ==
  \A r \in Runs :
    configured[r] = "no" =>
      /\ clientCalls[r] = 0
      /\ sent[r] = <<>>
      /\ pc[r] # "call"
      /\ llm[r].summary = <<"LLM not configured">>
      /\ \A k \in DOMAIN NoExternal : llm[r][k] = <<>>
      /\ pc[r] \in {"callback", "except", "done"} => Returned(r)
      /\ Returned(r) =>
           /\ result[r][1].success = TRUE
           /\ result[r][1].summary = <<"LLM not configured">>
           /\ result[r][1].suggestions = LocalOnly(code[r])

\* A finished run on the loop program for which is_configured answered
\* false, returning local suggestions.
C7_Witness ==
  \E r \in Runs :
    /\ pc[r] = "done"
    /\ code[r] = "loop"
    /\ configured[r] = "no"
    /\ ~IsConfigured(config, providers, imported)
    /\ result[r][1].suggestions # <<>>

\* C8: a run of analyze_code_async invokes its callback exactly once: never
\* more than once, and once by the time the worker has finished, whether the
\* analysis succeeded or failed or the callback itself raised.
C8_CallbackExactlyOnce ==
  \A r \in Runs :
    /\ Len(delivered[r]) <= 1
    /\ pc[r] = "done" => Len(delivered[r]) = 1

\* Some rule of the sanitizer matches a line of the text.
Sensitive(t) ==
  \E i \in 1..Len(t), j \in 1..Len(SensitivePatterns) :
    PatternMatches(SensitivePatterns[j][1], t[i])

\* C9: the text a provider receives is the output of sanitize_code on the
\* code of the run, and no line of it matches a sensitive rule.
C9_ProviderGetsSanitizedCode ==
  \A r \in Runs :
    \A i \in 1..Len(sent[r]) :
      /\ sent[r][i] = SanitizeCode(Program(code[r]).lines)[1]
      /\ ~Sensitive(sent[r][i])

(***************************************************************************)
(* Properties of _combine_suggestions followed by _filter_and_prioritize.  *)
(***************************************************************************)
\* C10: every suggestion the aggregation produces has a priority from 1 to
\* 5, whatever priorities the raw records and the external result carry.
C10_PriorityInRange ==
  phase = "done" => \A i \in 1..Len(filtered) : filtered[i].priority \in 1..5

\* The categories of the CodeSuggestion docstring.
FixedCategories == {"builder_mapping", "performance", "best_practices", "general"}

\* C11: every suggestion the aggregation produces has a category of the
\* fixed set; a raw record with any other category comes out as 'general'.
C11_CategoryInFixedSet ==
  phase = "done" =>
    /\ \A i \in 1..Len(filtered) : filtered[i].category \in FixedCategories
    /\ \A i \in 1..Len(raw_patterns) :
         Get(raw_patterns[i], "category", "general") \notin FixedCategories =>
           \E j \in 1..Len(filtered) :
             /\ filtered[j].category = "general"
             /\ filtered[j].original_code = Get(raw_patterns[i], "code", "")

(***************************************************************************)
(* Properties of a run whose provider answers.                             *)
(***************************************************************************)
\* The call of the client's analyze_code returned a value in run r.
ExternalReturned(r) ==
  /\ clientCalls[r] > 0
  /\ pc[r] # "call"
  /\ ~ExternalFailed(r)

\* Every local suggestion of the program has a record of its key in suggs.
LocalPresent(c, suggs) ==
  \A i \in 1..Len(LocalOnly(c)) :
    \E j \in 1..Len(suggs) : DedupKey(suggs[j]) = DedupKey(LocalOnly(c)[i])

\* C12: whatever value the provider returns without raising, well formed or
\* not, the run returns success = TRUE and the local suggestions are in its
\* result.
C12_MalformedResponseKeepsLocal ==
  \A r \in Runs :
    (ExternalReturned(r) /\ Returned(r)) =>
      /\ result[r][1].success = TRUE
      /\ LocalPresent(code[r], result[r][1].suggestions)

\* analyze_code has ended in run r, by returning or by raising.
AnalyzeEnded(r) == pc[r] \in {"callback", "except", "done"}

\* C13: analyze_code never raises but returns an AnalysisResult; in every
\* result error_message is set exactly when success is FALSE; and when a
\* stage after the syntax check raises, the result has success = FALSE, no
\* suggestions and the text of the exception as error_message.
C13_AlwaysWellFormedResult ==
  \A r \in Runs :
    /\ AnalyzeEnded(r) => Returned(r)
    /\ Returned(r) =>
         /\ (result[r][1].error_message # None) <=> (result[r][1].success = FALSE)
         /\ (~SyntaxFails(r) /\ AnalysisFault(llm[r]) # None) =>
              /\ result[r][1].success = FALSE
              /\ result[r][1].suggestions = <<>>
              /\ result[r][1].error_message = AnalysisFault(llm[r])

\* A finished run on the loop program in which _combine_suggestions raised
\* AttributeError on an item of the provider's answer.
C13_Witness ==
  \E r \in Runs :
    /\ pc[r] = "done"
    /\ code[r] = "loop"
    /\ local[r] # <<>>
    /\ result[r][1].success = FALSE
    /\ result[r][1].error_message = Some(<<"'", "str", "' object has no attribute 'get'">>)

(***************************************************************************)
(* Properties of concurrent runs.                                          *)
(***************************************************************************)
\* What analyze_code returns on a program, run alone, when the provider's
\* answer (or the placeholder that stands for it) is ext.
SequentialResult(c, ext) ==
  IF Program(c).parse = "SyntaxError" THEN SyntaxErrorResult(SyntaxErrorText(c))
  ELSE CombineAndReturn(DetectPatterns(c), ext)

\* The callback of run r is invoked for the first time in this step.
FirstDelivery(r) == delivered[r] = <<>> /\ delivered'[r] # <<>>

\* C14: with several runs in flight on one analyzer, under every
\* interleaving the result a callback receives when it is invoked is the
\* result a sequential analyze_code gives on the run's own code, and every
\* suggestion in it comes from the run's own local records or external
\* answer.
C14_ConcurrentRunsIndependent ==
  [][\A r \in Runs :
       FirstDelivery(r) =>
         /\ delivered'[r][1] = SequentialResult(code[r], llm[r])
         /\ \A i \in 1..Len(delivered'[r][1].suggestions) :
              delivered'[r][1].suggestions[i]
                \in Range(CombineSuggestions(DetectPatterns(code[r]), llm[r]))]_vars

\* Two runs on different programs, both answered by the provider, have both
\* delivered suggestions, and not the same ones.
C14_Witness ==
  \E r, q \in Runs :
    /\ r # q
    /\ code[r] # code[q]
    /\ pc[r] = "done" /\ pc[q] = "done"
    /\ delivered[r][1].suggestions # <<>>
    /\ delivered[q][1].suggestions # <<>>
    /\ delivered[r][1].suggestions # delivered[q][1].suggestions
    /\ clientCalls[r] > 0 /\ clientCalls[q] > 0

(***************************************************************************)
(* Properties of build_analysis_prompt.                                    *)
(***************************************************************************)
\* A recognized feature is enabled: its flag is in the map and true.
Enabled(enabled_features, feature) ==
  feature \in DOMAIN enabled_features /\ enabled_features[feature]

\* The prompt holds the instructions of the feature's category: it is the
\* comprehensive template, which asks for all three categories, or has the
\* instruction part of the category's own template.
Instructs(p, feature) ==
  \/ p = AnalysisPrompt
  \/ \E i \in 1..Len(p) : p[i] = SplitAfterBase(FocusedPrompt(feature))

\* C15: for every feature map the prompt holds the instructions of each
\* recognized feature that is enabled and of none that is not (flag false
\* or absent), and the comprehensive template is returned only when all
\* three recognized flags are enabled.
C15_PromptMatchesFeatures ==
  phase = "done" =>
    /\ \A k \in RecognizedFeatures : Instructs(prompt, k) <=> Enabled(features, k)
    /\ prompt = AnalysisPrompt => \A k \in RecognizedFeatures : Enabled(features, k)

(***************************************************************************)
(* Properties of the sanitizer and the privacy score.                      *)
(***************************************************************************)
\* The kind of the pattern that matches a line, "" when none does.
KindOf(line) ==
  IF \E j \in 1..Len(SensitivePatterns) : PatternMatches(SensitivePatterns[j][1], line)
  THEN SensitivePatterns[CHOOSE j \in 1..Len(SensitivePatterns) :
                           PatternMatches(SensitivePatterns[j][1], line)][2]
  ELSE ""

CredentialKinds == {"API_KEY", "TOKEN", "SECRET"}

\* The places of the text a pattern matches.
SensitivePlaces(t) == { i \in 1..Len(t) : KindOf(t[i]) # "" }

\* C16: sanitize_code returns a text without a match unchanged, with no
\* replacement record; a matched original occurs nowhere in the text
\* returned; and for a text whose one match is a credential-like assignment
\* there is exactly one replacement record, of the credential's kind.
C16_SanitizeRoundTrip ==
  phase = "sanitized" =>
    /\ SensitivePlaces(input_text) = {} => sanitized = <<input_text, <<>>>>
    /\ \A i \in SensitivePlaces(input_text) : input_text[i] \notin Range(sanitized[1])
    /\ \A i \in SensitivePlaces(input_text) :
         (SensitivePlaces(input_text) = {i} /\ KindOf(input_text[i]) \in CredentialKinds) =>
           /\ Len(sanitized[2]) = 1
           /\ sanitized[2][1].type = KindOf(input_text[i])
           /\ sanitized[2][1].original = input_text[i]
           /\ Len(sanitized[1]) = Len(input_text)
           /\ \A k \in 1..Len(input_text) : k # i => sanitized[1][k] = input_text[k]

\* sanitize_code has returned on a text of three lines, one of them a token
\* assignment between two lines that no pattern matches.
C16_Witness ==
  /\ phase = "sanitized"
  /\ input_text = <<"import time", "token = \"ghp_abcdefghijklmnopqrstuvwx\"", "api_key = \"short\"">>
  /\ sanitized[1] = <<"import time", "<TOKEN_30168db8>", "api_key = \"short\"">>

\* The severity weights of the claim; any other kind weighs 1.
SeverityWeight(kind) ==
  CASE kind \in {"API_KEY", "TOKEN", "SECRET"} -> 5
    [] kind \in {"DATABASE_URL", "AUTHENTICATED_URL"} -> 4
    [] kind \in {"EMAIL", "IP_ADDRESS"} -> 2
    [] OTHER -> 1

\* The greatest severity weight over the kinds of a list, 1 for none.
MaxSeverity(items) ==
  IF items = <<>> THEN 1
  ELSE LET weights == { SeverityWeight(items[i].type) : i \in 1..Len(items) } IN
         CHOOSE w \in weights : \A v \in weights : v <= w

\* C17: the risk score is the greatest severity weight over the detected
\* kinds, 1 when nothing is detected, and lies in 1..5; analyze_code_privacy
\* scores what check_for_sensitive_content detects in the text and sets
\* safe_to_send exactly when the score is below 3.
C17_RiskScoreIsMaxWeight ==
  /\ phase \in {"analyzed", "scored"} =>
       /\ privacy.risk_score = MaxSeverity(sensitive_content)
       /\ privacy.risk_score \in 1..5
       /\ sensitive_content = <<>> => privacy.risk_score = 1
  /\ phase = "analyzed" =>
       /\ privacy.risk_score =
            MaxSeverity([i \in 1..Len(input_text) |-> [type |-> KindOf(input_text[i])]])
       /\ privacy.safe_to_send <=> privacy.risk_score < 3

\* analyze_code_privacy has returned on a text with an e-mail address, then a
\* database URL, then a user path: score 4, not safe to send.
C17_Witness ==
  /\ phase = "analyzed"
  /\ input_text = <<"researcher@university.edu", "mysql://db.example.org/exp", "/home/alice/data.csv">>
  /\ privacy.risk_score = 4
  /\ ~privacy.safe_to_send

(***************************************************************************)
(* Properties of the command line interface.                               *)
(***************************************************************************)
\* The command line asks for local detection only: --no-llm, or no provider
\* together with a key.
LocalOnlyAsked ==
  argv.no_llm \/ argv.provider = "<None>" \/ ~Truthy(CliKey(argv))

\* C18: a CLI run with --no-llm, or without a provider and key, makes no
\* call of an external provider, whatever the stored configuration file
\* holds.
C18_LocalOnlyMakesNoProviderCall ==
  (cli_stage # "off" /\ LocalOnlyAsked) => clientCalls[1] = 0 /\ sent[1] = <<>>

(***************************************************************************)
(* Properties of a run on the loop program without a provider.             *)
(***************************************************************************)
\* The run has its result, for the loop program, with no provider
\* configured.
LoopRunEnded(r) == result[r] # <<>> /\ code[r] = "loop" /\ configured[r] = "no"

\* C19: for the program with a for loop over range(10) that constructs a
\* visual.TextStim, draws, flips and calls time.sleep, analyzed with no
\* provider configured, the result holds a performance suggestion of
\* priority 4 for the construction in the loop, a performance suggestion of
\* priority 3 for the sleep call and a builder_mapping suggestion of
\* priority 3 for the loop, and every priority-4 suggestion comes before
\* every priority-3 suggestion.
C19_LoopProgramSuggestions ==
  \A r \in Runs :
    LoopRunEnded(r) =>
      LET found == result[r][1].suggestions IN
        /\ \E i \in 1..Len(found) :
             /\ found[i].category = "performance"
             /\ found[i].priority = 4
             /\ found[i].original_code = "visual.TextStim(win, text='Hello')"
        /\ \E i \in 1..Len(found) :
             /\ found[i].category = "performance"
             /\ found[i].priority = 3
             /\ found[i].original_code = "time.sleep(...)"
        /\ \E i \in 1..Len(found) :
             /\ found[i].category = "builder_mapping"
             /\ found[i].priority = 3
             /\ found[i].original_code = "for i in range(10):"
        /\ \A i, j \in 1..Len(found) :
             (found[i].priority = 4 /\ found[j].priority = 3) => i < j

\* A run on the loop program has returned a successful result of five
\* suggestions with no provider configured.
C19_Witness ==
  \E r \in Runs :
    /\ LoopRunEnded(r)
    /\ result[r][1].success
    /\ Len(result[r][1].suggestions) = 5
    /\ clientCalls[r] = 0

(***************************************************************************)
(* Properties of ties in _filter_and_prioritize.                           *)
(***************************************************************************)
\* The place of the first input record with the key that has the key's
\* greatest priority.
FirstOfMaxPriority(suggs, key) ==
  LET places == { i \in 1..Len(suggs) :
                    /\ DedupKey(suggs[i]) = key
                    /\ suggs[i].priority = MaxPriority(suggs, key) }
  IN CHOOSE i \in places : \A k \in places : i <= k

\* C20: when several input records share a (category, original_code) key
\* and its greatest priority, the output's record for the key is the first
\* of them in input order, all fields unchanged; a later record of equal
\* priority never takes its place.
C20_TieKeepsFirst ==
  phase = "done" =>
    \A k \in 1..Len(filtered) :
      filtered[k] = suggestions[FirstOfMaxPriority(suggestions, DedupKey(filtered[k]))]

\* The input held two records of one key, both of priority 5 with different
\* titles, and the output holds the earlier and not the later.
C20_Witness ==
  /\ phase = "done"
  /\ \E i, j \in 1..Len(suggestions) :
       /\ i < j
       /\ DedupKey(suggestions[i]) = DedupKey(suggestions[j])
       /\ suggestions[i].priority = 5
       /\ suggestions[j].priority = 5
       /\ suggestions[i].title # suggestions[j].title
       /\ suggestions[i] \in Range(filtered)
       /\ suggestions[j] \notin Range(filtered)

(***************************************************************************)
(* Properties of the time recorded in a result.                            *)
(***************************************************************************)
\* C21: a result returned on a syntax failure carries the time elapsed since
\* the start of the run, as the result of an unexpected internal failure
\* does, and not the default of the record.
C21_SyntaxFailureRecordsElapsed ==
  \A r \in Runs :
    (result[r] # <<>> /\ ~result[r][1].success) => result[r][1].analysis_time = "elapsed"

(***************************************************************************)
(* Properties of the pattern detector on programs built from blocks.       *)
(***************************************************************************)
\* detect_patterns has returned on the caller's program.
Detected == phase \in {"detected", "done"}

\* The records a pass completed with, and none for a pass that raised.
CompletedPasses(prog) ==
  << DetectStimulusInLoop(prog.body),
     IF TrialLoopsRaises(prog.body) THEN <<>> ELSE DetectTrialLoops(prog.body),
     DetectMagicNumbers(prog.lines),
     DetectInefficientTiming(prog.body),
     DetectMissingCleanup(prog.lines),
     DetectResourceLoadingInLoop(prog.body) >>

\* C22: detect_patterns never raises; on a program that fails to parse it
\* returns the empty list, and on one that parses it returns the records of
\* the passes that completed, in the order of the passes, a pass that raises
\* adding nothing and leaving the later passes as they are.
C22_DetectPatternsNeverRaises ==
  /\ phase # "raised"
  /\ detect_raised = <<>>
  /\ Detected =>
       LET prog == SourceProgram(source) IN
         /\ prog.parse # "ok" => raw_patterns = <<>>
         /\ prog.parse = "ok" => raw_patterns = Flatten(CompletedPasses(prog))

RECURSIVE CallsInLoops(_, _, _)
\* The Call nodes of a tree, each with the number of for loops and of while
\* loops that enclose it.
CallsInLoops(nodes, fors, whiles) ==
  IF nodes = <<>> THEN <<>>
  ELSE LET n == Head(nodes) IN
         (CASE n.type = "For" -> CallsInLoops(<<n.iter>> \o n.body, fors + 1, whiles)
            [] n.type = "While" -> CallsInLoops(n.body, fors, whiles + 1)
            [] OTHER -> <<[call |-> n, fors |-> fors, whiles |-> whiles]>>
                          \o CallsInLoops(n.args, fors, whiles))
         \o CallsInLoops(Tail(nodes), fors, whiles)

\* A call of one of the fixed visual constructors.
IsConstruction(call) ==
  /\ call.func.type = "Attribute"
  /\ call.func.value_id = "visual"
  /\ call.func.attr \in StimulusClasses

\* The records of the construction-in-loop pass for the call on a line.
ConstructionRecords(line) ==
  { i \in 1..Len(raw_patterns) :
      /\ raw_patterns[i].title[1] = "Stimulus creation in loop ("
      /\ raw_patterns[i].line_numbers = <<line>> }

\* C23: the construction-in-loop pass gives a performance record of
\* priority 4 for every construction call inside a for loop or a while
\* loop, and no record for a construction call outside every loop.
C23_ConstructionInAnyLoop ==
  (Detected /\ SourceParse(source) = "ok") =>
    LET calls == CallsInLoops(SourceProgram(source).body, 0, 0) IN
      \A k \in 1..Len(calls) :
        IsConstruction(calls[k].call) =>
          LET found == ConstructionRecords(calls[k].call.lineno) IN
            IF calls[k].fors + calls[k].whiles > 0
            THEN /\ found # {}
                 /\ \A i \in found : /\ raw_patterns[i].category = "performance"
                                      /\ raw_patterns[i].priority = 4
            ELSE found = {}

\* The records of the missing-cleanup pass with a priority.
CleanupRecords(priority) ==
  { i \in 1..Len(raw_patterns) :
      /\ raw_patterns[i].category = "best_practices"
      /\ raw_patterns[i].title \in {<<"Missing window cleanup">>, <<"Missing core.quit()">>}
      /\ raw_patterns[i].priority = priority }

\* C24: the missing-cleanup pass gives a best_practices record of priority 2
\* exactly when the source constructs a window with no close call after it,
\* and one of priority 1 exactly when it constructs a window and has no
\* quit call; a window with neither close nor quit gives these two records.
C24_MissingCleanupRecords ==
  (Detected /\ SourceParse(source) = "ok") =>
    LET lines == SourceLines(source)
        windows == { i \in 1..Len(lines) : lines[i] = "win = visual.Window()" }
        closes == { i \in 1..Len(lines) : lines[i] = "win.close()" }
        quits == { i \in 1..Len(lines) : lines[i] = "core.quit()" }
        unclosed == \E w \in windows : \A c \in closes : c < w
    IN /\ Cardinality(CleanupRecords(2)) = IF unclosed THEN 1 ELSE 0
       /\ Cardinality(CleanupRecords(1)) = IF windows # {} /\ quits = {} THEN 1 ELSE 0

\* The records of the in-loop passes (construction, sound loading) for the
\* call on a line.
InLoopRecords(line) ==
  { i \in 1..Len(raw_patterns) :
      /\ raw_patterns[i].title[1] \in {"Stimulus creation in loop (", "Sound loading in loop"}
      /\ raw_patterns[i].line_numbers = <<line>> }

\* A call the in-loop passes flag: a visual construction or sound.Sound.
IsFlagged(call) ==
  \/ IsConstruction(call)
  \/ /\ call.func.type = "Attribute"
     /\ call.func.value_id = "sound"
     /\ call.func.attr = "Sound"

\* The suggestions of the result with a (category, original_code) key.
WithKey(category, original_code) ==
  { k \in 1..Len(filtered) :
      filtered[k].category = category /\ filtered[k].original_code = original_code }

StageRank(stage) ==
  CASE stage = "idle" -> 0
    [] stage = "parse" -> 1
    [] stage = "detect" -> 2
    [] stage = "llm" -> 3
    [] stage = "call" -> 4
    [] stage = "aggregate" -> 5
    [] OTHER -> 6

\* A step of run r keeps to the order of the stages.
StagesInOrder(r) ==
  /\ StageRank(pc'[r]) >= StageRank(pc[r])
  /\ pc[r] = "parse" /\ pc'[r] # "parse" =>
       pc'[r] = IF Program(code[r]).parse = "ok" THEN "detect" ELSE "callback"
  /\ pc[r] = "detect" /\ pc'[r] # "detect" => pc'[r] = "llm" /\ detectCalls'[r] = 1
  /\ pc[r] = "llm" /\ pc'[r] # "llm" =>
       pc'[r] = IF IsConfigured(config, providers, imported) THEN "call" ELSE "aggregate"
  /\ pc[r] = "call" /\ pc'[r] # "call" => pc'[r] = "aggregate"
  /\ pc[r] = "aggregate" /\ pc'[r] # "aggregate" => pc'[r] = "callback"
  /\ detectCalls'[r] # detectCalls[r] => pc[r] = "detect" /\ detectCalls[r] = 0
  /\ clientCalls'[r] # clientCalls[r] =>
       pc[r] = "call" /\ clientCalls[r] = 0 /\ detectCalls[r] = 1 /\ configured[r] = "yes"
  /\ (result'[r] # result[r] /\ Program(code[r]).parse = "ok") => pc[r] = "aggregate"

\* C25: a run on code that parses goes through syntax check, pattern
\* detection, external analysis (only when configured) and aggregation in
\* this order, each at most once and never back; the external call starts
\* only after detection has returned; and aggregation always runs, also
\* when there is neither a local record nor an external item.
C25_StagesInOrder ==
  /\ [][\A r \in Runs : StagesInOrder(r)]_vars
  /\ \A r \in Runs :
       (pc[r] = "detect") ~> (pc[r] \in {"callback", "except", "done"} /\ result[r] # <<>>)

\* A run on the program without findings, with no provider configured, has
\* its result from the aggregation: success with no suggestion, detection
\* called once and the client never.
C25_Witness ==
  \E r \in Runs :
    /\ pc[r] = "callback"
    /\ code[r] = "hello"
    /\ configured[r] = "no"
    /\ detectCalls[r] = 1
    /\ clientCalls[r] = 0
    /\ result[r][1].success
    /\ result[r][1].suggestions = <<>>

(***************************************************************************)
(* External items and local records of one key.                            *)
(***************************************************************************)
\* The suggestions made of the items of an external result alone, and of
\* local records alone.
ExternalItems(ext) == CombineSuggestions(<<>>, ext)
LocalItems(patterns) == CombineSuggestions(patterns, NotConfiguredResult)

\* The local suggestions that share their key with the suggestion e.
SharingKey(e) == { l \in Range(LocalItems(raw_patterns)) : DedupKey(l) = DedupKey(e) }

\* C27: the external items are normalized before the local records, so for
\* a key that an external item and a local record share the output carries
\* the external item (its title, its description, its empty line_numbers)
\* unless a local record's priority is strictly greater, and then it
\* carries the first local record of the greatest priority.
C27_ExternalKeptUnlessLocalGreater ==
  phase = "done" =>
    /\ suggestions = ExternalItems(external) \o LocalItems(raw_patterns)
    /\ \A e \in Range(ExternalItems(external)) :
         SharingKey(e) # {} =>
           \E i \in 1..Len(filtered) :
             /\ DedupKey(filtered[i]) = DedupKey(e)
             /\ IF \E l \in SharingKey(e) : l.priority > e.priority
                THEN filtered[i] = LocalItems(raw_patterns)[
                                      FirstOfMaxPriority(LocalItems(raw_patterns), DedupKey(e))]
                ELSE /\ filtered[i] = e
                     /\ filtered[i].line_numbers = <<>>

\* An external performance item at 4 and the local in-loop construction
\* record at 4 aggregated, and the output carrying the external item.
C27_Witness ==
  /\ phase = "done"
  /\ \E e \in Range(ExternalItems(external)) :
       /\ e.category = "performance"
       /\ e.priority = 4
       /\ \E l \in SharingKey(e) : l.priority = 4 /\ l.line_numbers # <<>>
       /\ \A l \in SharingKey(e) : l.priority = 4
       /\ \E i \in 1..Len(filtered) :
            filtered[i] = e /\ filtered[i].title = <<"Performance: ", "Stimulus recreated">>

(***************************************************************************)
(* The configuration written and refreshed while a run is in flight.       *)
(***************************************************************************)
\* The providers whose key in a configuration is truthy.
WithKeyIn(cfg) == { n \in ProviderNames : Truthy(cfg.api_keys[n]) }

\* refresh_configuration returns in this step.
RefreshReturns == ui = "prompt_builder" /\ ui' = "idle"

\* What the refresh leaves in the provider set when it returns: a provider
\* for exactly the keys that are not empty, none of them made before the
\* refresh began, each holding the key of the configuration.
RefreshRebuildsProviders ==
  [][RefreshReturns =>
       /\ DOMAIN providers' = WithKeyIn(config')
       /\ stale' = {}
       /\ \A n \in DOMAIN providers' : providers'[n].api_key = config'.api_keys[n]
       /\ features' = stored_features']_vars

PossibleExternal ==
  {NotConfiguredResult, LlmFailedResult(<<"No LLM provider configured">>),
   LlmReturned(FullResponse)}
    \cup { LlmFailedResult(<<ApiErrorPrefix(n), "Connection timed out">>) : n \in ProviderNames }

\* analyze_code of run r returns in this step.
AnalyzeReturns(r) == result[r] = <<>> /\ result'[r] # <<>>

IsConfiguredAnswers(r) == configured[r] = "unasked" /\ configured'[r] # "unasked"

\* C29: is_configured is decided against the provider set built at
\* construction or at the latest refresh, under the active provider name of
\* the moment: it answers true only when the active provider had a key when
\* the set was built, whatever keys were written since, and outside a
\* refresh it answers true exactly then; the client is handed to a provider
\* only in that case; and no write of the configuration changes the
\* provider set.
C29_ConfiguredAgainstBuiltProviders ==
  [][/\ \A r \in Runs :
          /\ IsConfiguredAnswers(r) =>
               /\ configured'[r] = "yes" => Truthy(built_from[config.api_provider])
               /\ ui = "idle" =>
                    (configured'[r] = "yes" <=> Truthy(built_from[config.api_provider]))
          /\ sent'[r] # sent[r] => Truthy(built_from[config.api_provider])
     /\ (config' # config \/ stored_features' # stored_features) =>
          providers' = providers /\ built_from' = built_from]_vars

\* A key written for a provider that had none when the provider set was
\* built, the provider made the active one, no refresh since, and a run
\* that was answered false and returned without a call of the client.
C29_Witness ==
  \E r \in Runs :
    /\ ui = "idle"
    /\ config.api_provider = "anthropic"
    /\ Truthy(config.api_keys["anthropic"])
    /\ ~Truthy(built_from["anthropic"])
    /\ Truthy(built_from["openai"])
    /\ configured[r] = "no"
    /\ Returned(r)
    /\ clientCalls[r] = 0
    /\ sent[r] = <<>>

=============================================================================
